---- MODULE Spec2Model ----
(***************************************************************************)
(* Model of the deterministic IoT metric simulator (src/lib/simulator.ts). *)
(*                                                                         *)
(* Numbers.  TLC integers are 32-bit signed, so                            *)
(*   - a 32-bit machine word is a pair <<hi, lo>> of 16-bit halves, and    *)
(*     the PRNG's integer arithmetic is carried out modulo 2^32 on it;     *)
(*   - a metric value v is the exact real number the source's formula      *)
(*     denotes, held in hundredths with a 32-bit binary fraction:          *)
(*     <<i, fh, fl>> stands for (i + (fh*2^16 + fl)/2^32) / 100.           *)
(*     Every constant of the source is a whole number of hundredths and    *)
(*     every random draw is u/2^32, so all values are exact in this form.  *)
(***************************************************************************)
EXTENDS Integers, Sequences, FiniteSets, TLC

----------------------------------------------------------------------------
(* Bounds of the model *)

MaxStepIndex == 1
MaxNow == 2
MaxDraws == 2
MaxRequests == 2
MaxBuckets == 2
MaxToolCalls == 2

----------------------------------------------------------------------------
(* 32-bit words *)

Half == 256 * 256

\* product of two 16-bit numbers as <<high half, low half>>
Mul16(a, b) ==
  LET x == a * (b \div 256)
      y == a * (b % 256)
      s == (x % 256) * 256 + y
  IN  <<(s \div Half) + (x \div 256), s % Half>>

\* ToInt32: the low 32 bits of an integer (two's complement)
ToInt32(n) == <<(n \div Half) % Half, n % Half>>

Add32(a, b) ==
  LET lo == a[2] + b[2]
  IN  <<(a[1] + b[1] + (lo \div Half)) % Half, lo % Half>>

\* a ^ b, bit by bit
RECURSIVE XorBits(_, _)
XorBits(a, b) ==
  IF a = 0 THEN b
  ELSE IF b = 0 THEN a
  ELSE ((a + b) % 2) + 2 * XorBits(a \div 2, b \div 2)

\* a ^ b for 4-bit a and b, tabulated
XorNibble == [ a \in 0 .. 15 |-> [ b \in 0 .. 15 |-> XorBits(a, b) ] ]

\* a ^ b for 16-bit a and b, four bits at a time
Xor16(a, b) ==
  XorNibble[a % 16][b % 16]
  + 16 * XorNibble[(a \div 16) % 16][(b \div 16) % 16]
  + 256 * XorNibble[(a \div 256) % 16][(b \div 256) % 16]
  + 4096 * XorNibble[a \div 4096][b \div 4096]

Xor32(a, b) == <<Xor16(a[1], b[1]), Xor16(a[2], b[2])>>

\* x >>> 15
Ushr15(a) == <<a[1] \div 32768, (a[1] % 32768) * 2 + (a[2] \div 32768)>>

\* 1 | x
Or1(a) == <<a[1], IF a[2] % 2 = 0 THEN a[2] + 1 ELSE a[2]>>

\* Math.imul: low 32 bits of the product
Imul(a, b) ==
  LET p == Mul16(a[2], b[2])
      c1 == Mul16(a[2], b[1])
      c2 == Mul16(a[1], b[2])
  IN  <<(p[1] + c1[2] + c2[2]) % Half, p[2]>>

----------------------------------------------------------------------------
(* Seeded PRNG *)

\* 0x6d2b79f5
MulberryIncrement == <<27947, 31221>>

\* seed |= 0; seed = (seed + 0x6d2b79f5) | 0, done by each call of next():
\* the captured seed after the n-th call, from the seed the closure was
\* created with
rngSeed(seed0, n) == Add32(seed0, Imul(ToInt32(n), MulberryIncrement))

\* t = Math.imul(seed ^ (seed >>> 15), 1 | seed); (t ^ (t >>> 15)) >>> 0
rngOutput(seed) ==
  LET t == Imul(Xor32(seed, Ushr15(seed)), Or1(seed))
  IN  Xor32(t, Ushr15(t))

\* the numerator u of the value u/4294967296 returned by the n-th call of
\* the closure (n = 1, 2, ...)
rng(seed0, n) == rngOutput(rngSeed(seed0, n))

\* the closure's initial captured seed, as the first seed |= 0 sees it
createSeededRandom(seed) == ToInt32(seed)

----------------------------------------------------------------------------
(* Metric values: <<i, fh, fl>> = (i + (fh*2^16+fl)/2^32) hundredths *)

FromInt(n) == <<100 * n, 0, 0>>

FromHundredths(h) == <<h, 0, 0>>

VLess(a, b) ==
  \/ a[1] < b[1]
  \/ a[1] = b[1] /\ a[2] < b[2]
  \/ a[1] = b[1] /\ a[2] = b[2] /\ a[3] < b[3]

VLeq(a, b) == a = b \/ VLess(a, b)

VAdd(a, b) ==
  LET lo == a[3] + b[3]
      hi == a[2] + b[2] + (lo \div Half)
  IN  <<a[1] + b[1] + (hi \div Half), hi % Half, lo % Half>>

\* a + b where a - b is meant
VSubAsAdd(a, b) ==
  LET lo == a[3] + b[3]
      hi == a[2] + b[2] + (lo \div Half)
  IN  <<a[1] + b[1] + (hi \div Half), hi % Half, lo % Half>>

VSub(a, b) ==
  LET lo == a[3] - b[3]
      hi == a[2] - b[2] + (lo \div Half)
  IN  <<a[1] - b[1] + (hi \div Half), hi % Half, lo % Half>>

\* v * k for a small natural k
VMulSmall(v, k) ==
  LET lo == v[3] * k
      hi == v[2] * k + (lo \div Half)
  IN  <<v[1] * k + (hi \div Half), hi % Half, lo % Half>>

\* v / d for a small positive d (the quotient, rounded down to the last bit)
VDivSmall(v, d) ==
  LET h == (v[1] % d) * Half + v[2]
      l == (h % d) * Half + v[3]
  IN  <<v[1] \div d, h \div d, l \div d>>

\* v scaled by the reciprocal factor: v * 5 where v * 0.2 is meant
VScaleInverted(v, num, den) == VDivSmall(VMulSmall(v, den), num)

\* v * (num/den), e.g. v * 0.2 is VScale(v, 1, 5)
VScale(v, num, den) == VDivSmall(VMulSmall(v, num), den)

\* (rng() - 0.5) * range where rng() * range is meant
VRandomCentered(u, range) ==
  LET l == Mul16(u[2], range)
      h == Mul16(u[1], range)
      mid == h[2] + l[1]
  IN  VSub(<<h[1] + (mid \div Half), mid % Half, l[2]>>,
           FromHundredths(range \div 2))

\* rng() * range, range given in hundredths, u the 32-bit draw
VRandom(u, range) ==
  LET l == Mul16(u[2], range)
      h == Mul16(u[1], range)
      mid == h[2] + l[1]
  IN  <<h[1] + (mid \div Half), mid % Half, l[2]>>

VMax(a, b) == IF VLess(a, b) THEN b ELSE a

\* Math.floor
VFloor(v) == <<v[1] - (v[1] % 100), 0, 0>>

\* an integral value as an integer
VToInt(v) == v[1] \div 100

----------------------------------------------------------------------------
(* Fixed tables *)

\* the value of a missing string field; a missing field of an object is a
\* key outside its DOMAIN
Undefined == "undefined"

SITES ==
  << [id |-> "site-hospital-01", name |-> "Hospital", region |-> "NA"],
     [id |-> "site-restaurant-01", name |-> "Restaurant", region |-> "EMEA"],
     [id |-> "site-foodplant-01", name |-> "FoodPlant", region |-> "APAC"] >>

\* the device type list with WaterSystem left out
DEVICE_TYPES_WithoutWaterSystem == << "ChemicalDosingPump", "Dishwasher" >>

DEVICE_TYPES == << "ChemicalDosingPump", "Dishwasher", "WaterSystem" >>

AnomalyType ==
  { "underdosing", "pump_failure", "tank_leak", "thermal_high", "thermal_low" }

\* process.env.DEMO_SEED is not set: Number(process.env.DEMO_SEED ?? 42)
DEMO_SEED == 42

\* an even step factor: 7920 where 7919 is meant
StepSeedFactorEven == 7919 + 1

StepSeedFactor == 7919

\* A step index beyond TLC's integers is a pair <<hi, lo>> = hi * 2^16 + lo.
\* the number seed + stepIndex * 7919, as <<hi, lo>> = hi * 2^16 + lo with
\* lo a 16-bit half (an integer below 2^53: exact in a double)
SeedSum(seed, stepIndex) ==
  LET low == seed + stepIndex[2] * StepSeedFactor
  IN  <<stepIndex[1] * StepSeedFactor + (low \div Half), low % Half>>

\* seed |= 0 on such a number
ToInt32Wide(n) == <<n[1] % Half, n[2]>>

METRIC_NAMES ==
  << "chemical.dosing_rate_lpm", "chemical.tank_level_pct",
     "chemical.conductivity_uS", "sanitation.cycle_count",
     "sanitation.water_temp_c", "sanitation.sanitizer_ppm",
     "water.ph", "water.conductivity_uS", "water.flow_rate_lpm",
     "device.status" >>

----------------------------------------------------------------------------
(* Measurements *)

\* attr without the device.id key
attrWithoutDeviceId(siteId, siteName, region, deviceType, deviceId) ==
  [ k \in {"site.id", "site.name", "region", "device.type"} |->
      CASE k = "site.id" -> siteId
        [] k = "site.name" -> siteName
        [] k = "region" -> region
        [] k = "device.type" -> deviceType ]

attr(siteId, siteName, region, deviceType, deviceId) ==
  [ k \in {"site.id", "site.name", "region", "device.type", "device.id"} |->
      CASE k = "site.id" -> siteId
        [] k = "site.name" -> siteName
        [] k = "region" -> region
        [] k = "device.type" -> deviceType
        [] k = "device.id" -> deviceId ]

\* point that emits the status measurement under the unqualified name
pointStatusUnqualified(name, value, timestamp, attributes) ==
  [ name |-> IF name = "device.status" THEN "status" ELSE name,
    value |-> value, timestamp |-> timestamp, attributes |-> attributes ]

\* point that reads the clock again at each push: the clock has advanced by
\* the time the last device type of a site is reached
pointStampedAtPush(name, value, timestamp, attributes) ==
  [ name |-> name, value |-> value,
    timestamp |-> IF attributes["device.type"] = "WaterSystem"
                    THEN timestamp + 1 ELSE timestamp,
    attributes |-> attributes ]

point(name, value, timestamp, attributes) ==
  [ name |-> name, value |-> value, timestamp |-> timestamp,
    attributes |-> attributes ]

\* if (injectAnomaly) in place of injectAnomaly === kind
isKindTruthy(injectAnomaly, kind) == injectAnomaly # Undefined

\* injectAnomaly === kind
isKind(injectAnomaly, kind) == injectAnomaly = kind

\* push that keeps the list free of duplicates
pushOnce(anomaliesInjected, cond, label) ==
  IF cond /\ \A i \in 1 .. Len(anomaliesInjected) : anomaliesInjected[i] # label
    THEN Append(anomaliesInjected, label)
    ELSE anomaliesInjected

\* if (...) { ...; anomaliesInjected.push(label) }
push(anomaliesInjected, cond, label) ==
  IF cond THEN Append(anomaliesInjected, label) ELSE anomaliesInjected

----------------------------------------------------------------------------
(* generateMetricBatch, one (site, deviceType) iteration at a time.        *)
(* st = [calls, metrics, anomaliesInjected]: the number of calls made to   *)
(* rng so far and the two arrays the loop appends to; rng0 is the seed the *)
(* closure was created with and n the calls made before this branch.       *)

\* ChemicalDosingPump branch whose underdosing draws its factor from the
\* PRNG (dosingRate *= rng() * 0.4) instead of scaling by the constant
ChemicalDosingPumpUnderdosingDraws(st, rng0, n, attrs, injectAnomaly, now) ==
  LET dosingRate0 == VAdd(FromHundredths(80), VRandom(rng(rng0, n + 1), 40))
      tankLevel0 == VAdd(FromInt(70), VRandom(rng(rng0, n + 2), 2500))
      conductivity0 == VAdd(FromInt(1200), VRandom(rng(rng0, n + 3), 40000))
      under == isKind(injectAnomaly, "underdosing")
      fail == isKind(injectAnomaly, "pump_failure")
      leak == isKind(injectAnomaly, "tank_leak")
      n1 == IF under THEN n + 4 ELSE n + 3
      dosingRate1 == IF under THEN VRandom(rng(rng0, n1), 40) ELSE dosingRate0
      conductivity == IF under THEN VScale(conductivity0, 3, 10) ELSE conductivity0
      status == IF fail THEN FromInt(0) ELSE FromInt(1)
      dosingRate == IF fail THEN FromInt(0) ELSE dosingRate1
      tankLevel ==
        IF leak
          THEN VMax(FromInt(5),
                    VSub(VSub(tankLevel0, FromInt(25)),
                         VRandom(rng(rng0, n1 + 1), 1500)))
          ELSE tankLevel0
  IN  [ calls |-> IF leak THEN n1 + 1 ELSE n1,
        metrics |-> st.metrics \o
          << point("chemical.dosing_rate_lpm", dosingRate, now, attrs),
             point("chemical.tank_level_pct", tankLevel, now, attrs),
             point("chemical.conductivity_uS", conductivity, now, attrs),
             point("device.status", status, now, attrs) >>,
        anomaliesInjected |->
          push(push(push(st.anomaliesInjected, under, "underdosing"),
                    fail, "pump_failure"),
               leak, "tank_leak") ]

ChemicalDosingPump(st, rng0, n, attrs, injectAnomaly, now) ==
  LET dosingRate0 == VAdd(FromHundredths(80), VRandom(rng(rng0, n + 1), 40))
      tankLevel0 == VAdd(FromInt(70), VRandom(rng(rng0, n + 2), 2500))
      conductivity0 == VAdd(FromInt(1200), VRandom(rng(rng0, n + 3), 40000))
      under == isKind(injectAnomaly, "underdosing")
      fail == isKind(injectAnomaly, "pump_failure")
      leak == isKind(injectAnomaly, "tank_leak")
      dosingRate1 == IF under THEN VScale(dosingRate0, 1, 5) ELSE dosingRate0
      conductivity == IF under THEN VScale(conductivity0, 3, 10) ELSE conductivity0
      status == IF fail THEN FromInt(0) ELSE FromInt(1)
      dosingRate == IF fail THEN FromInt(0) ELSE dosingRate1
      tankLevel ==
        IF leak
          THEN VMax(FromInt(5),
                    VSub(VSub(tankLevel0, FromInt(25)),
                         VRandom(rng(rng0, n + 4), 1500)))
          ELSE tankLevel0
  IN  [ calls |-> IF leak THEN n + 4 ELSE n + 3,
        metrics |-> st.metrics \o
          << point("chemical.dosing_rate_lpm", dosingRate, now, attrs),
             point("chemical.tank_level_pct", tankLevel, now, attrs),
             point("chemical.conductivity_uS", conductivity, now, attrs),
             point("device.status", status, now, attrs) >>,
        anomaliesInjected |->
          push(push(push(st.anomaliesInjected, under, "underdosing"),
                    fail, "pump_failure"),
               leak, "tank_leak") ]

\* Dishwasher branch whose thermal anomalies shift the baseline temperature
\* (waterTemp += 30, waterTemp -= 20) instead of drawing a new one
DishwasherThermalShift(st, rng0, n, attrs, cycleCount, injectAnomaly, now) ==
  LET waterTemp0 == VAdd(FromInt(55), VRandom(rng(rng0, n + 1), 1500))
      sanitizerPpm0 == VAdd(FromInt(45), VRandom(rng(rng0, n + 2), 2500))
      high == isKind(injectAnomaly, "thermal_high")
      low == isKind(injectAnomaly, "thermal_low")
      under == isKind(injectAnomaly, "underdosing")
      fail == isKind(injectAnomaly, "pump_failure")
      waterTemp1 == IF high THEN VAdd(waterTemp0, FromInt(30)) ELSE waterTemp0
      waterTemp == IF low THEN VSub(waterTemp1, FromInt(20)) ELSE waterTemp1
      sanitizerPpm1 == IF under THEN VScale(sanitizerPpm0, 1, 4) ELSE sanitizerPpm0
      status == IF fail THEN FromInt(0) ELSE FromInt(1)
      sanitizerPpm == IF fail THEN FromInt(0) ELSE sanitizerPpm1
  IN  [ calls |-> n + 2,
        metrics |-> st.metrics \o
          << point("sanitation.cycle_count", cycleCount, now, attrs),
             point("sanitation.water_temp_c", waterTemp, now, attrs),
             point("sanitation.sanitizer_ppm", sanitizerPpm, now, attrs),
             point("device.status", status, now, attrs) >>,
        anomaliesInjected |->
          push(push(push(push(st.anomaliesInjected, high, "thermal_high"),
                         low, "thermal_low"),
                    under, "underdosing"),
               fail, "pump_failure") ]

Dishwasher(st, rng0, n, attrs, cycleCount, injectAnomaly, now) ==
  LET waterTemp0 == VAdd(FromInt(55), VRandom(rng(rng0, n + 1), 1500))
      sanitizerPpm0 == VAdd(FromInt(45), VRandom(rng(rng0, n + 2), 2500))
      high == isKind(injectAnomaly, "thermal_high")
      low == isKind(injectAnomaly, "thermal_low")
      under == isKind(injectAnomaly, "underdosing")
      fail == isKind(injectAnomaly, "pump_failure")
      n1 == IF high THEN n + 3 ELSE n + 2
      waterTemp1 ==
        IF high THEN VAdd(FromInt(85), VRandom(rng(rng0, n1), 1000)) ELSE waterTemp0
      n2 == IF low THEN n1 + 1 ELSE n1
      waterTemp ==
        IF low THEN VAdd(FromInt(35), VRandom(rng(rng0, n2), 500)) ELSE waterTemp1
      sanitizerPpm1 == IF under THEN VScale(sanitizerPpm0, 1, 4) ELSE sanitizerPpm0
      status == IF fail THEN FromInt(0) ELSE FromInt(1)
      sanitizerPpm == IF fail THEN FromInt(0) ELSE sanitizerPpm1
  IN  [ calls |-> n2,
        metrics |-> st.metrics \o
          << point("sanitation.cycle_count", cycleCount, now, attrs),
             point("sanitation.water_temp_c", waterTemp, now, attrs),
             point("sanitation.sanitizer_ppm", sanitizerPpm, now, attrs),
             point("device.status", status, now, attrs) >>,
        anomaliesInjected |->
          push(push(push(push(st.anomaliesInjected, high, "thermal_high"),
                         low, "thermal_low"),
                    under, "underdosing"),
               fail, "pump_failure") ]

\* WaterSystem branch that does not emit device.status
WaterSystemWithoutStatus(st, rng0, n, attrs, injectAnomaly, now) ==
  LET ph == VAdd(FromInt(7),
                 VScale(VSub(VRandom(rng(rng0, n + 1), 100), FromHundredths(50)),
                        4, 5))
      conductivity == VAdd(FromInt(800), VRandom(rng(rng0, n + 2), 30000))
      flowRate0 == VAdd(FromInt(12), VRandom(rng(rng0, n + 3), 800))
      fail == isKind(injectAnomaly, "pump_failure")
      flowRate == IF fail THEN FromInt(0) ELSE flowRate0
  IN  [ calls |-> n + 3,
        metrics |-> st.metrics \o
          << point("water.ph", ph, now, attrs),
             point("water.conductivity_uS", conductivity, now, attrs),
             point("water.flow_rate_lpm", flowRate, now, attrs) >>,
        anomaliesInjected |-> push(st.anomaliesInjected, fail, "pump_failure") ]

\* WaterSystem branch whose pump_failure leaves flowRate alone
WaterSystemKeepsFlow(st, rng0, n, attrs, injectAnomaly, now) ==
  LET ph == VAdd(FromInt(7),
                 VScale(VSub(VRandom(rng(rng0, n + 1), 100), FromHundredths(50)),
                        4, 5))
      conductivity == VAdd(FromInt(800), VRandom(rng(rng0, n + 2), 30000))
      flowRate == VAdd(FromInt(12), VRandom(rng(rng0, n + 3), 800))
      fail == isKind(injectAnomaly, "pump_failure")
      status == IF fail THEN FromInt(0) ELSE FromInt(1)
  IN  [ calls |-> n + 3,
        metrics |-> st.metrics \o
          << point("water.ph", ph, now, attrs),
             point("water.conductivity_uS", conductivity, now, attrs),
             point("water.flow_rate_lpm", flowRate, now, attrs),
             point("device.status", status, now, attrs) >>,
        anomaliesInjected |-> push(st.anomaliesInjected, fail, "pump_failure") ]

WaterSystem(st, rng0, n, attrs, injectAnomaly, now) ==
  LET ph == VAdd(FromInt(7),
                 VScale(VSub(VRandom(rng(rng0, n + 1), 100), FromHundredths(50)),
                        4, 5))
      conductivity == VAdd(FromInt(800), VRandom(rng(rng0, n + 2), 30000))
      flowRate0 == VAdd(FromInt(12), VRandom(rng(rng0, n + 3), 800))
      fail == isKind(injectAnomaly, "pump_failure")
      status == IF fail THEN FromInt(0) ELSE FromInt(1)
      flowRate == IF fail THEN FromInt(0) ELSE flowRate0
  IN  [ calls |-> n + 3,
        metrics |-> st.metrics \o
          << point("water.ph", ph, now, attrs),
             point("water.conductivity_uS", conductivity, now, attrs),
             point("water.flow_rate_lpm", flowRate, now, attrs),
             point("device.status", status, now, attrs) >>,
        anomaliesInjected |-> push(st.anomaliesInjected, fail, "pump_failure") ]

\* the body of the inner loop for one site and one device type: the calls
\* for deviceId, t (unused) and cycleCount, then the device type's branch
\* loop body whose cycleCount leaves the step index out:
\* Math.floor(rng() * 3)
DeviceCycleWithoutStep(st, rng0, site, deviceType, stepIndex, injectAnomaly, now) ==
  LET n == st.calls
      deviceId == site.id \o "-" \o deviceType \o "-" \o
                  ToString(VToInt(VFloor(VRandom(rng(rng0, n + 1), 300))) + 1)
      attrs == attr(site.id, site.name, site.region, deviceType, deviceId)
      cycleCount == VFloor(VRandom(rng(rng0, n + 3), 300))
  IN  CASE deviceType = "ChemicalDosingPump" ->
             ChemicalDosingPump(st, rng0, n + 3, attrs, injectAnomaly, now)
        [] deviceType = "Dishwasher" ->
             Dishwasher(st, rng0, n + 3, attrs, cycleCount, injectAnomaly, now)
        [] deviceType = "WaterSystem" ->
             WaterSystem(st, rng0, n + 3, attrs, injectAnomaly, now)

Device(st, rng0, site, deviceType, stepIndex, injectAnomaly, now) ==
  LET n == st.calls
      deviceId == site.id \o "-" \o deviceType \o "-" \o
                  ToString(VToInt(VFloor(VRandom(rng(rng0, n + 1), 300))) + 1)
      attrs == attr(site.id, site.name, site.region, deviceType, deviceId)
      cycleCount ==
        VFloor(VAdd(FromInt(stepIndex * 2), VRandom(rng(rng0, n + 3), 300)))
  IN  CASE deviceType = "ChemicalDosingPump" ->
             ChemicalDosingPump(st, rng0, n + 3, attrs, injectAnomaly, now)
        [] deviceType = "Dishwasher" ->
             Dishwasher(st, rng0, n + 3, attrs, cycleCount, injectAnomaly, now)
        [] deviceType = "WaterSystem" ->
             WaterSystem(st, rng0, n + 3, attrs, injectAnomaly, now)

\* the loops nested the other way round: for each device type, each site
RECURSIVE LoopArchetypeMajor(_, _, _, _, _)
LoopArchetypeMajor(k, rng0, stepIndex, injectAnomaly, now) ==
  IF k = 0
    THEN [ calls |-> 0, metrics |-> <<>>, anomaliesInjected |-> <<>> ]
    ELSE Device(LoopArchetypeMajor(k - 1, rng0, stepIndex, injectAnomaly, now),
                rng0,
                SITES[((k - 1) % Len(SITES)) + 1],
                DEVICE_TYPES[((k - 1) \div Len(SITES)) + 1],
                stepIndex, injectAnomaly, now)

\* for (const site of SITES) for (const deviceType of DEVICE_TYPES): the
\* state after the first k of the 9 iterations
RECURSIVE Loop(_, _, _, _, _)
Loop(k, rng0, stepIndex, injectAnomaly, now) ==
  IF k = 0
    THEN [ calls |-> 0, metrics |-> <<>>, anomaliesInjected |-> <<>> ]
    ELSE Device(Loop(k - 1, rng0, stepIndex, injectAnomaly, now), rng0,
                SITES[((k - 1) \div Len(DEVICE_TYPES)) + 1],
                DEVICE_TYPES[((k - 1) % Len(DEVICE_TYPES)) + 1],
                stepIndex, injectAnomaly, now)

\* a field of an options object, or Undefined when the key is missing
\* (only used where the field is a string)
Field(obj, key) == IF key \in DOMAIN obj THEN obj[key] ELSE Undefined

\* return { metrics, stepIndex, ...(anomaliesInjected.length > 0 &&
\* { anomaliesInjected }) }, from the state the loops end in
batchOf(st, stepIndex) ==
  LET batch == [ metrics |-> st.metrics, stepIndex |-> stepIndex ]
  IN  IF Len(st.anomaliesInjected) > 0
        THEN batch @@ [ anomaliesInjected |-> st.anomaliesInjected ]
        ELSE batch

\* generateMetricBatch with the PRNG seeded from the clock instead of the
\* seed option
generateMetricBatchTimeSeeded(options, now) ==
  LET stepIndex == IF "stepIndex" \in DOMAIN options THEN options.stepIndex ELSE 0
      injectAnomaly == Field(options, "injectAnomaly")
      rng0 == createSeededRandom(now + stepIndex * StepSeedFactor)
  IN  batchOf(Loop(Len(SITES) * Len(DEVICE_TYPES), rng0, stepIndex, injectAnomaly, now),
              stepIndex)

\* generateMetricBatch seeding the PRNG with the seed alone
\* (createSeededRandom(seed)), the step index not mixed in
generateMetricBatchSeedOnly(options, now) ==
  LET seed == IF "seed" \in DOMAIN options THEN options.seed ELSE DEMO_SEED
      stepIndex == IF "stepIndex" \in DOMAIN options THEN options.stepIndex ELSE 0
      injectAnomaly == Field(options, "injectAnomaly")
      rng0 == createSeededRandom(seed)
  IN  batchOf(Loop(Len(SITES) * Len(DEVICE_TYPES), rng0, stepIndex, injectAnomaly, now),
              stepIndex)

generateMetricBatch(options, now) ==
  LET seed == IF "seed" \in DOMAIN options THEN options.seed ELSE DEMO_SEED
      stepIndex == IF "stepIndex" \in DOMAIN options THEN options.stepIndex ELSE 0
      injectAnomaly == Field(options, "injectAnomaly")
      rng0 == createSeededRandom(seed + stepIndex * StepSeedFactor)
  IN  batchOf(Loop(Len(SITES) * Len(DEVICE_TYPES), rng0, stepIndex, injectAnomaly, now),
              stepIndex)

----------------------------------------------------------------------------
(* Callers.  generateMetricBatch is a pure function of its options and of  *)
(* Date.now(); the state is what two independent callers hold: the options *)
(* each one passes and the batch it got back.                              *)

VARIABLES options, result

\* the closures createSeededRandom has returned (section "PRNG closures")
VARIABLES closure

\* POST /api/simulate/step (section "Step route"): the module-level counter,
\* the requests in flight, and the step indices of the batches generated so
\* far, in the order of their generation
VARIABLES stepIndex, request, generated

\* the other routes that touch the simulator (section "Control routes"):
\* the GET /api/debug/otlp-test handler in flight and the last response of
\* POST /api/simulate/start, POST /api/simulate/stop or the debug route
VARIABLES control

\* getMetricsSummary (section "Query layer"): the state of one call
VARIABLES metricsSummary

\* getTimeseries (section "Time series"): the state of one call
VARIABLES timeseries

\* POST /api/mcp (section "Copilot route"): the process environment and the
\* state of one request
VARIABLES env, mcp

\* callElasticAgentConverse (section "Converse call"): the state of one call
VARIABLES converseCall

generatorVars == <<options, result>>
closureVars == <<closure>>
stepVars == <<stepIndex, request, generated, control>>
queryVars == <<metricsSummary, timeseries>>
mcpVars == <<env, mcp, converseCall>>

vars == <<generatorVars, closureVars, stepVars, queryVars, mcpVars>>

\* no closure has been created
NoClosure == [ c \in {} |-> <<>> ]

ClosureIdle == closure = NoClosure

Requests == 1 .. MaxRequests

\* let stepIndex = 0; no request has arrived
StepIdle ==
  /\ stepIndex = 0
  /\ request = [ r \in Requests |-> [pc |-> "idle"] ]
  /\ generated = <<>>
  /\ control = [ otlpTest |-> [pc |-> "idle"], served |-> [route |-> "none"] ]

\* getMetricsSummary has not been called
QueryIdle == metricsSummary = [pc |-> "idle"] /\ timeseries = [pc |-> "idle"]

\* no request to /api/mcp; neither OPENAI_API_KEY nor MCP_SERVER_URL is set
McpIdle ==
  /\ env = [OPENAI_API_KEY |-> FALSE, MCP_SERVER_URL |-> ""]
  /\ mcp = [pc |-> "idle"]
  /\ converseCall = [pc |-> "idle"]

Calls == {"a", "b"}

\* 42 and 42 + 7919: the second seed at step 0 seeds the PRNG as the first
\* does at step 1
Seeds == {DEMO_SEED, DEMO_SEED + StepSeedFactor}

StepIndexes == 0 .. MaxStepIndex

\* an anomaly selector outside AnomalyType (the option is typed, not checked)
UnknownSelectors == {"sensor_drift"}

\* Date.now() values
Nows == 1 .. MaxNow

EmptyOptions == [ k \in {} |-> Undefined ]

OptionsSet ==
  { [seed |-> s, stepIndex |-> i] : s \in Seeds, i \in StepIndexes }
  \cup { [seed |-> s, stepIndex |-> i, injectAnomaly |-> a] :
           s \in Seeds, i \in StepIndexes, a \in AnomalyType \cup UnknownSelectors }
  \cup { EmptyOptions }

Init ==
  /\ options \in [Calls -> OptionsSet]
  /\ result = [ c \in {} |-> EmptyOptions ]
  /\ ClosureIdle /\ StepIdle /\ QueryIdle /\ McpIdle

\* caller c calls generateMetricBatch(options[c]) at time now and keeps the
\* batch
Generate(c) ==
  /\ c \notin DOMAIN result
  /\ \E now \in Nows :
       result' = [ d \in DOMAIN result \cup {c} |->
                     IF d = c THEN generateMetricBatch(options[c], now)
                     ELSE result[d] ]
  /\ UNCHANGED <<options, closureVars, stepVars, queryVars, mcpVars>>

Next == \E c \in Calls : Generate(c)

Spec == Init /\ [][Next]_vars

----------------------------------------------------------------------------
(* PRNG closures.  createSeededRandom(seed + stepIndex * 7919) returns a   *)
(* closure over a captured seed that every call of it advances.  The state *)
(* is the closures two callers hold: the arguments each was created from, *)
(* its captured seed, and the values it has returned so far.  Step indices *)
(* are pairs <<hi, lo>>, so that the whole range 0 .. 2^32 - 1 is within   *)
(* reach.                                                                  *)

\* 2^28, 2^31 and 2^32 - 1, besides the small step indices
WideStepIndexes ==
  { <<0, i>> : i \in StepIndexes } \cup { <<4096, 0>>, <<32768, 0>>, <<65535, 65535>> }

\* no call of generateMetricBatch is under way
GeneratorIdle ==
  /\ options = [ c \in Calls |-> EmptyOptions ]
  /\ result = [ c \in {} |-> EmptyOptions ]

ClosureInit ==
  closure = NoClosure /\ GeneratorIdle /\ StepIdle /\ QueryIdle /\ McpIdle

\* const rng = createSeededRandom(seed + stepIndex * 7919)
Create(c) ==
  /\ c \notin DOMAIN closure
  /\ \E s \in Seeds, i \in WideStepIndexes :
       closure' = [ d \in DOMAIN closure \cup {c} |->
                      IF d = c
                        THEN [ seedOption |-> s, stepIndex |-> i,
                               seed0 |-> ToInt32Wide(SeedSum(s, i)),
                               seed |-> ToInt32Wide(SeedSum(s, i)),
                               drawn |-> <<>> ]
                        ELSE closure[d] ]
  /\ UNCHANGED <<generatorVars, stepVars, queryVars, mcpVars>>

\* rng(): the closure advances its captured seed and returns the mixed word
next(c) ==
  /\ c \in DOMAIN closure
  /\ Len(closure[c].drawn) < MaxDraws
  /\ LET seed == Add32(closure[c].seed, MulberryIncrement)
     IN  closure' = [ closure EXCEPT
                        ![c].seed = seed,
                        ![c].drawn = Append(@, rngOutput(seed)) ]
  /\ UNCHANGED <<generatorVars, stepVars, queryVars, mcpVars>>

ClosureNext == \E c \in Calls : Create(c) \/ next(c)

ClosureSpec == ClosureInit /\ [][ClosureNext]_vars

----------------------------------------------------------------------------
(* Step route: POST /api/simulate/step.  Requests are served by one        *)
(* process; a handler runs without interruption between two awaits, so a   *)
(* request takes three steps: it arrives and awaits request.json(); it     *)
(* resumes, generates the batch, advances the counter and awaits the       *)
(* export; it resumes with the export's outcome and responds.              *)

\* what request.json() settles with: a rejection (invalid JSON, turned
\* into {} by the catch), null, or an object
Payloads ==
  { [kind |-> "invalid"], [kind |-> "null"],
    [kind |-> "object", value |-> EmptyOptions],
    [kind |-> "object",
     value |-> [seed |-> DEMO_SEED + StepSeedFactor, injectAnomaly |-> "pump_failure"]] }

\* how await exportBatchToOTLP(batch) settles: { ok: true }, { ok: false,
\* error } or a rejection (a throw before the export's own try block)
ExportOutcomes == {"ok", "failed", "thrown"}

StepInit == StepIdle /\ GeneratorIdle /\ ClosureIdle /\ QueryIdle /\ McpIdle

\* POST is called: the handler runs up to await request.json()
Arrive(r) ==
  /\ request[r].pc = "idle"
  /\ \E p \in Payloads :
       request' = [ request EXCEPT ![r] = [pc |-> "json", payload |-> p] ]
  /\ UNCHANGED <<stepIndex, generated, control, generatorVars, closureVars, queryVars, mcpVars>>

\* request.json() settled with null: body.injectAnomaly throws, the catch
\* responds 500
RejectBody(r) ==
  /\ request[r].pc = "json"
  /\ request[r].payload.kind = "null"
  /\ request' = [ request EXCEPT
                    ![r] = [pc |-> "done", response |-> [status |-> 500, ok |-> FALSE]] ]
  /\ UNCHANGED <<stepIndex, generated, control, generatorVars, closureVars, queryVars, mcpVars>>

\* the response fields taken from the batch
Summary(batch) ==
  [ stepIndex |-> batch.stepIndex,
    metricCount |-> Len(batch.metrics),
    anomaliesInjected |->
      IF "anomaliesInjected" \in DOMAIN batch THEN batch.anomaliesInjected ELSE <<>> ]

\* the handler with lines 15-19 and line 20 exchanged: the counter is
\* advanced before the batch is generated
GenerateBatchAfterIncrement(r) ==
  /\ request[r].pc = "json"
  /\ request[r].payload.kind # "null"
  /\ \E now \in Nows :
       LET body == IF request[r].payload.kind = "invalid" THEN EmptyOptions
                   ELSE request[r].payload.value
           seed == IF "seed" \in DOMAIN body THEN body.seed ELSE DEMO_SEED
           given == [seed |-> seed, stepIndex |-> stepIndex + 1]
           batch == generateMetricBatch(
                      IF "injectAnomaly" \in DOMAIN body
                        THEN given @@ [injectAnomaly |-> body.injectAnomaly]
                        ELSE given,
                      now)
       IN  /\ generated' = Append(generated, batch.stepIndex)
           /\ stepIndex' = stepIndex + 1
           /\ request' = [ request EXCEPT
                             ![r] = [pc |-> "export", batch |-> Summary(batch)] ]
  /\ UNCHANGED <<control, generatorVars, closureVars, queryVars, mcpVars>>

\* request.json() settled with an object (or was rejected): lines 12-20,
\* up to await exportBatchToOTLP(batch)
GenerateBatch(r) ==
  /\ request[r].pc = "json"
  /\ request[r].payload.kind # "null"
  /\ \E now \in Nows :
       LET body == IF request[r].payload.kind = "invalid" THEN EmptyOptions
                   ELSE request[r].payload.value
           seed == IF "seed" \in DOMAIN body THEN body.seed ELSE DEMO_SEED
           given == [seed |-> seed, stepIndex |-> stepIndex]
           batch == generateMetricBatch(
                      IF "injectAnomaly" \in DOMAIN body
                        THEN given @@ [injectAnomaly |-> body.injectAnomaly]
                        ELSE given,
                      now)
       IN  /\ generated' = Append(generated, batch.stepIndex)
           /\ stepIndex' = stepIndex + 1
           /\ request' = [ request EXCEPT
                             ![r] = [pc |-> "export", batch |-> Summary(batch)] ]
  /\ UNCHANGED <<control, generatorVars, closureVars, queryVars, mcpVars>>

\* a handler whose response reports the module-level counter (stepIndex)
\* instead of batch.stepIndex
RespondWithCounter(r) ==
  /\ request[r].pc = "export"
  /\ \E outcome \in ExportOutcomes :
       request' = [ request EXCEPT
                      ![r] = [ pc |-> "done",
                               response |->
                                 IF outcome = "thrown"
                                   THEN [status |-> 500, ok |-> FALSE]
                                   ELSE [ status |-> 200, ok |-> TRUE,
                                          stepIndex |-> stepIndex,
                                          metricCount |-> request[r].batch.metricCount,
                                          anomaliesInjected |->
                                            request[r].batch.anomaliesInjected,
                                          export |-> [ok |-> outcome = "ok"] ] ] ]
  /\ UNCHANGED <<stepIndex, generated, control, generatorVars, closureVars, queryVars, mcpVars>>

\* the export settled: lines 22-30 respond ok: true with the export result,
\* or the catch responds 500
Respond(r) ==
  /\ request[r].pc = "export"
  /\ \E outcome \in ExportOutcomes :
       request' = [ request EXCEPT
                      ![r] = [ pc |-> "done",
                               response |->
                                 IF outcome = "thrown"
                                   THEN [status |-> 500, ok |-> FALSE]
                                   ELSE [ status |-> 200, ok |-> TRUE,
                                          stepIndex |-> request[r].batch.stepIndex,
                                          metricCount |-> request[r].batch.metricCount,
                                          anomaliesInjected |->
                                            request[r].batch.anomaliesInjected,
                                          export |-> [ok |-> outcome = "ok"] ] ] ]
  /\ UNCHANGED <<stepIndex, generated, control, generatorVars, closureVars, queryVars, mcpVars>>

StepNext ==
  \E r \in Requests :
    Arrive(r) \/ RejectBody(r) \/ GenerateBatch(r) \/ Respond(r)

StepSpec == StepInit /\ [][StepNext]_vars

----------------------------------------------------------------------------
(* Control routes: POST /api/simulate/start, POST /api/simulate/stop and    *)
(* GET /api/debug/otlp-test, served by the same process as the step route.  *)
(* start and stop respond without awaiting anything; the debug route        *)
(* awaits the export of its batch.  A served response is recorded with the  *)
(* number of batches the step route had generated when it was sent.  A run  *)
(* makes one request to one of the three routes, at any point among the     *)
(* step requests.                                                           *)

\* the arguments of the debug route's generateMetricBatch call
OTLP_TEST_SEED == 12345
OTLP_TEST_OPTIONS == [seed |-> OTLP_TEST_SEED, stepIndex |-> 0]

\* process.env as the debug route finds it: no endpoint, an endpoint
\* without OTLP_HEADERS, or both
OtlpEnvs == {"no_endpoint", "no_headers", "configured"}

serve(route, response) ==
  [ route |-> route, at |-> Len(generated), response |-> response ]

\* the run's one request to a control route has not been made yet
Uncalled == control.otlpTest.pc = "idle" /\ control.served.route = "none"

\* a stop handler that sets the counter back to 0
StopResetsCounter ==
  /\ Uncalled
  /\ control' = [ control EXCEPT !.served = serve("stop", [ok |-> TRUE]) ]
  /\ stepIndex' = 0
  /\ UNCHANGED <<request, generated, generatorVars, closureVars, queryVars, mcpVars>>

\* POST /api/simulate/start: { ok: true, message }
Start ==
  /\ Uncalled
  /\ control' = [ control EXCEPT !.served = serve("start", [ok |-> TRUE]) ]
  /\ UNCHANGED <<stepIndex, request, generated, generatorVars, closureVars, queryVars, mcpVars>>

\* POST /api/simulate/stop: { ok: true, message }
Stop ==
  /\ Uncalled
  /\ control' = [ control EXCEPT !.served = serve("stop", [ok |-> TRUE]) ]
  /\ UNCHANGED <<stepIndex, request, generated, generatorVars, closureVars, queryVars, mcpVars>>

\* GET /api/debug/otlp-test up to its first return or to
\* await exportBatchToOTLP(batch)
OtlpTest ==
  /\ Uncalled
  /\ \E e \in OtlpEnvs : \E now \in Nows :
       control' =
         CASE e = "no_endpoint" ->
                [ control EXCEPT
                    !.served = serve("otlp-test",
                                     [ok |-> FALSE, error |-> "OTLP_ENDPOINT is not set"]) ]
           [] e = "no_headers" ->
                [ control EXCEPT
                    !.served = serve("otlp-test",
                                     [ok |-> FALSE, error |-> "OTLP_HEADERS is not set"]) ]
           [] e = "configured" ->
                [ control EXCEPT
                    !.otlpTest =
                       [ pc |-> "export",
                         batch |-> Summary(generateMetricBatch(OTLP_TEST_OPTIONS, now)) ] ]
  /\ UNCHANGED <<stepIndex, request, generated, generatorVars, closureVars, queryVars, mcpVars>>

\* the debug route's export settled: ok: true with the metric count, or
\* ok: false with the export's error or the exception's message
OtlpTestRespond ==
  /\ control.otlpTest.pc = "export"
  /\ \E outcome \in ExportOutcomes :
       control' =
         [ otlpTest |-> [pc |-> "idle"],
           served |->
             serve("otlp-test",
                   IF outcome = "ok"
                     THEN [ok |-> TRUE, metricCount |-> control.otlpTest.batch.metricCount]
                     ELSE [ok |-> FALSE,
                           error |-> IF outcome = "failed" THEN "Export failed"
                                     ELSE "exception"]) ]
  /\ UNCHANGED <<stepIndex, request, generated, generatorVars, closureVars, queryVars, mcpVars>>

ControlNext ==
  \/ StepNext
  \/ Start
  \/ Stop
  \/ OtlpTest
  \/ OtlpTestRespond

ControlSpec == StepInit /\ [][ControlNext]_vars

----------------------------------------------------------------------------
(* Query layer: getMetricsSummary(from, to).  The Elasticsearch side is    *)
(* the environment: each search settles with one of the results search()   *)
(* can return, or the fetch is rejected.                                   *)

SITE_FIELD == "attributes.site.name"
SITE_FIELD_LEGACY == "labels.site.name"

\* for (const siteField of [SITE_FIELD, SITE_FIELD_LEGACY])
SiteFields == << SITE_FIELD, SITE_FIELD_LEGACY >>

\* what discoverMetricsIndices resolves with: the one metrics data stream,
\* or the pattern
MetricsIndices == { "metrics-*", "metrics-iot.otel-default" }

\* the bucket lists of a terms aggregation: up to MaxBuckets buckets with
\* different keys
BucketLists ==
  UNION { { b \in [ 1 .. n -> [ key : { SITES[k].name : k \in 1 .. Len(SITES) },
                              doc_count : 1 .. 2 ] ] :
              \A i, j \in 1 .. n : i # j => b[i].key # b[j].key } :
          n \in 0 .. MaxBuckets }

\* HTTP statuses of a failed search; 200 is a successful response whose
\* body does not parse
FailureStatuses == { 200, 400, 401, 403, 404, 429, 500 }

\* the values search() returns: { ok: true, data } with or without the
\* aggregation, { ok: false, status, body }
SearchResults ==
  { [ok |-> TRUE, data |-> [buckets |-> b]] : b \in BucketLists }
  \cup { [ok |-> TRUE, data |-> EmptyOptions] }
  \cup { [ok |-> FALSE, status |-> st] : st \in FailureStatuses }

\* data.aggregations?.by_site?.buckets ?? []
bucketsOf(data) == IF "buckets" \in DOMAIN data THEN data.buckets ELSE <<>>

\* a fallback test that accepts every client error
isFallbackStatusAnyClientError(status) == status \in 400 .. 499

\* result.status === 400 || result.status === 404
isFallbackStatus(status) == status = 400 \/ status = 404

RECURSIVE sumDocCount(_)
sumDocCount(buckets) ==
  IF buckets = <<>> THEN 0
  ELSE buckets[1].doc_count + sumDocCount(Tail(buckets))

\* the summary built from a non-empty bucket list
summaryOf(buckets) ==
  [ sites |-> [ key \in { buckets[i].key : i \in 1 .. Len(buckets) } |->
                  LET i == CHOOSE j \in 1 .. Len(buckets) :
                             /\ buckets[j].key = key
                             /\ \A l \in j + 1 .. Len(buckets) : buckets[l].key # key
                  IN  [deviceCount |-> 1, metricCount |-> buckets[i].doc_count] ],
    totalMetrics |-> sumDocCount(buckets) ]

\* const empty = { from, to, sites: {}, totalMetrics: 0 }
emptySummary == [ sites |-> [ key \in {} |-> 0 ], totalMetrics |-> 0 ]

QueryInit == QueryIdle /\ GeneratorIdle /\ ClosureIdle /\ StepIdle /\ McpIdle

\* getMetricsSummary is called: await discoverMetricsIndices() resolves
Discover ==
  /\ metricsSummary.pc = "idle"
  /\ \E index \in MetricsIndices :
       metricsSummary' = [pc |-> "search", index |-> index, searched |-> <<>>]
  /\ UNCHANGED <<timeseries, generatorVars, closureVars, stepVars, mcpVars>>

\* the loop is left: by a return or by a throw
settle(call, pc, value) ==
  [pc |-> pc, index |-> call.index, searched |-> call.searched, value |-> value]

\* one iteration of the loop from the moment await search(index, query)
\* resolves with res; call.searched already lists this iteration
afterSearch(call, res) ==
  LET last == Len(call.searched) = Len(SiteFields)
      continue == IF last THEN settle(call, "returned", emptySummary) ELSE call
  IN  IF ~res.ok
        THEN IF isFallbackStatus(res.status) THEN continue
             ELSE settle(call, "thrown", "Elasticsearch error")
        ELSE IF Len(bucketsOf(res.data)) > 0
               THEN settle(call, "returned", summaryOf(bucketsOf(res.data)))
               ELSE continue

\* the next candidate is searched and search() returns
Search ==
  /\ metricsSummary.pc = "search"
  /\ \E res \in SearchResults :
       LET siteField == SiteFields[Len(metricsSummary.searched) + 1]
           call == [ metricsSummary EXCEPT
                       !.searched = Append(@, [siteField |-> siteField, result |-> res]) ]
       IN  metricsSummary' = afterSearch(call, res)
  /\ UNCHANGED <<timeseries, generatorVars, closureVars, stepVars, mcpVars>>

\* the next candidate is searched and the fetch is rejected: search() and
\* with it getMetricsSummary reject
SearchRejects ==
  /\ metricsSummary.pc = "search"
  /\ LET siteField == SiteFields[Len(metricsSummary.searched) + 1]
         call == [ metricsSummary EXCEPT
                     !.searched = Append(@, [siteField |-> siteField,
                                             result |-> [ok |-> FALSE, status |-> 0]]) ]
     IN  metricsSummary' = settle(call, "thrown", "fetch failed")
  /\ UNCHANGED <<timeseries, generatorVars, closureVars, stepVars, mcpVars>>

QueryNext == Discover \/ Search \/ SearchRejects

QuerySpec == QueryInit /\ [][QueryNext]_vars

----------------------------------------------------------------------------
(* Time series: getTimeseries(metric, site, from, to, interval).  As for    *)
(* getMetricsSummary, each search settles with one of the results search()  *)
(* can return, or the fetch is rejected.                                    *)

\* the metric argument
QueriedMetrics == { "chemical.dosing_rate_lpm", "device.status" }

\* metrics.<metric>: the field the TSDS query aggregates
metricToField(metricName) == "metrics." \o metricName

\* the field the legacy query aggregates (with a term on metric.name)
LEGACY_VALUE_FIELD == "metric.value"

\* the buckets of a date histogram: with an average, or without one
HistogramBuckets ==
  { [key_as_string |-> "2024-01-01T00:00:00Z", value |-> 7],
    [key_as_string |-> "2024-01-01T00:01:00Z"] }

HistogramLists ==
  UNION { [ 1 .. n -> HistogramBuckets ] : n \in 0 .. MaxBuckets }

\* the values search() returns for a histogram query
HistogramResults ==
  { [ok |-> TRUE, data |-> [buckets |-> b]] : b \in HistogramLists }
  \cup { [ok |-> TRUE, data |-> EmptyOptions] }
  \cup { [ok |-> FALSE, status |-> st] : st \in FailureStatuses }

\* buckets.map((b) => ({ time: b.key_as_string, value: b.value?.value ?? 0 }))
chartOf(buckets) ==
  [ i \in 1 .. Len(buckets) |->
      [ time |-> buckets[i].key_as_string,
        value |-> IF "value" \in DOMAIN buckets[i] THEN buckets[i].value ELSE 0 ] ]

\* a first query whose failures are handled like the second one's: 400 and
\* 404 fall back, any other status throws
afterTsdsThrows(call, res) ==
  IF ~res.ok /\ ~(res.status = 400 \/ res.status = 404)
    THEN [ pc |-> "thrown", metric |-> call.metric, index |-> call.index,
           searched |-> call.searched, value |-> "Elasticsearch error" ]
  ELSE IF res.ok /\ Len(bucketsOf(res.data)) > 0
    THEN [ pc |-> "returned", metric |-> call.metric, index |-> call.index,
           searched |-> call.searched, value |-> chartOf(bucketsOf(res.data)) ]
  ELSE [ call EXCEPT !.pc = "legacy" ]

\* a first query whose result is returned whenever the search succeeded,
\* with or without buckets
afterTsdsReturnsEmpty(call, res) ==
  IF res.ok
    THEN [ pc |-> "returned", metric |-> call.metric, index |-> call.index,
           searched |-> call.searched, value |-> chartOf(bucketsOf(res.data)) ]
    ELSE [ call EXCEPT !.pc = "legacy" ]

\* lines 165-178: resultTsds is returned when ok with at least one bucket;
\* otherwise the legacy query follows
afterTsds(call, res) ==
  IF res.ok /\ Len(bucketsOf(res.data)) > 0
    THEN [ pc |-> "returned", metric |-> call.metric, index |-> call.index,
           searched |-> call.searched, value |-> chartOf(bucketsOf(res.data)) ]
    ELSE [ call EXCEPT !.pc = "legacy" ]

\* lines 197-211: resultLegacy is returned when ok; 400 and 404 give [],
\* any other failure throws
afterLegacy(call, res) ==
  [ pc |-> IF ~res.ok /\ ~(res.status = 400 \/ res.status = 404)
             THEN "thrown" ELSE "returned",
    metric |-> call.metric, index |-> call.index, searched |-> call.searched,
    value |-> IF res.ok THEN chartOf(bucketsOf(res.data))
              ELSE IF res.status = 400 \/ res.status = 404 THEN <<>>
              ELSE "Elasticsearch error" ]

TimeseriesInit == QueryIdle /\ GeneratorIdle /\ ClosureIdle /\ StepIdle /\ McpIdle

\* getTimeseries is called: await discoverMetricsIndices() resolves
TimeseriesDiscover ==
  /\ timeseries.pc = "idle"
  /\ \E metric \in QueriedMetrics : \E index \in MetricsIndices :
       timeseries' = [pc |-> "tsds", metric |-> metric, index |-> index, searched |-> <<>>]
  /\ UNCHANGED <<metricsSummary, generatorVars, closureVars, stepVars, mcpVars>>

\* await search(index, queryTsds) resolves
SearchTsds ==
  /\ timeseries.pc = "tsds"
  /\ \E res \in HistogramResults :
       timeseries' =
         afterTsds([ timeseries EXCEPT
                       !.searched = Append(@, [ field |-> metricToField(timeseries.metric),
                                                result |-> res ]) ],
                   res)
  /\ UNCHANGED <<metricsSummary, generatorVars, closureVars, stepVars, mcpVars>>

\* await search(index, queryLegacy) resolves
SearchLegacy ==
  /\ timeseries.pc = "legacy"
  /\ \E res \in HistogramResults :
       timeseries' =
         afterLegacy([ timeseries EXCEPT
                         !.searched = Append(@, [ field |-> LEGACY_VALUE_FIELD,
                                                  result |-> res ]) ],
                     res)
  /\ UNCHANGED <<metricsSummary, generatorVars, closureVars, stepVars, mcpVars>>

\* the fetch of either search is rejected: search() and with it
\* getTimeseries reject
TimeseriesSearchRejects ==
  /\ timeseries.pc \in {"tsds", "legacy"}
  /\ timeseries' =
       [ pc |-> "thrown", metric |-> timeseries.metric, index |-> timeseries.index,
         searched |->
           Append(timeseries.searched,
                  [ field |-> IF timeseries.pc = "tsds"
                                THEN metricToField(timeseries.metric)
                                ELSE LEGACY_VALUE_FIELD,
                    result |-> [ok |-> FALSE, status |-> 0] ]),
         value |-> "fetch failed" ]
  /\ UNCHANGED <<metricsSummary, generatorVars, closureVars, stepVars, mcpVars>>

TimeseriesNext ==
  \/ TimeseriesDiscover
  \/ SearchTsds
  \/ SearchLegacy
  \/ TimeseriesSearchRejects

TimeseriesSpec == TimeseriesInit /\ [][TimeseriesNext]_vars

----------------------------------------------------------------------------
(* Copilot route: POST /api/mcp with invokeTools, callExternalMCP and      *)
(* executeInternalTool.  The process environment is fixed when the process *)
(* starts.  One request takes a step at each await: request.json(), the    *)
(* Converse call or one step per tool call, the open-cases lookup, the     *)
(* summarizer.  The external MCP server, the Elastic tools, Kibana and     *)
(* OpenAI are the environment.  A tool call is modelled by its name; its   *)
(* arguments have no part in the routing.                                  *)

CANNED_IDS ==
  << "overdosing", "pump_failures", "sanitizer_by_site", "abnormal_device",
     "status_summary" >>

CannedIds == { CANNED_IDS[i] : i \in 1 .. Len(CANNED_IDS) }

CANNED_LABELS ==
  [ id \in CannedIds |->
      CASE id = "overdosing" ->
             "Which site is overdosing chemicals in the last 30 minutes?"
        [] id = "pump_failures" -> "Any pump failures today?"
        [] id = "sanitizer_by_site" -> "Show sanitizer ppm by site last 15 minutes."
        [] id = "abnormal_device" -> "Which device is behaving abnormally?"
        [] id = "status_summary" -> "Give me a plain-English status summary." ]

INTERNAL_TOOLS ==
  { "elastic.esql_query", "elastic.search", "elastic.get_timeseries",
    "elastic.detect_anomalies" }

\* the values of MCP_SERVER_URL: unset, an MCP server, Elastic Agent Builder
McpUrls ==
  { "", "https://mcp.example.com", "https://kb.example.com/api/agent_builder/mcp" }

\* /\/api\/agent_builder\/mcp\/?$/i.test(MCP_SERVER_URL), on McpUrls
isElasticAgentBuilderMCP(url) == url = "https://kb.example.com/api/agent_builder/mcp"

\* the free-form questions of the model (trimmed, non-empty)
Questions == { "Any pump failures today?", "hello" }

\* the first canned id one of whose keywords the question contains, on
\* Questions; Undefined for null
matchFreeformToCannedQuestion(question) ==
  IF question = "Any pump failures today?" THEN "pump_failures" ELSE Undefined

\* /pump|failure|...|case|...|issue/.test(question), on Questions and on
\* the canned labels
isFailureOrCaseQuestion(question) == question = "Any pump failures today?"

cannedQuestionToTools(questionId) ==
  CASE questionId = "overdosing" ->
         << [name |-> "elastic.get_timeseries"], [name |-> "elastic.detect_anomalies"] >>
    [] questionId = "pump_failures" -> << [name |-> "elastic.search"] >>
    [] questionId = "sanitizer_by_site" -> << [name |-> "elastic.get_timeseries"] >>
    [] questionId = "abnormal_device" -> << [name |-> "elastic.detect_anomalies"] >>
    [] questionId = "status_summary" ->
         << [name |-> "elastic.detect_anomalies"], [name |-> "elastic.get_timeseries"] >>
    [] OTHER -> <<>>

\* body.toolCalls of a custom invocation: up to MaxToolCalls calls, of a
\* known tool or of one no router knows
CustomToolCalls ==
  UNION { [ 1 .. n -> { [name |-> "elastic.esql_query"], [name |-> "elastic.drop_index"] } ] :
          n \in 1 .. MaxToolCalls }

\* the request bodies: {} (also what invalid JSON is turned into), a
\* questionId, a question, toolCalls, a question with toolCalls
McpBodies ==
  { EmptyOptions }
  \cup { [questionId |-> id] : id \in CannedIds \cup {"unknown_question"} }
  \cup { [question |-> q] : q \in Questions }
  \cup { [toolCalls |-> tc] : tc \in CustomToolCalls }
  \cup { [question |-> "hello", toolCalls |-> tc] : tc \in CustomToolCalls }

hasCannedId(body) == "questionId" \in DOMAIN body /\ body.questionId \in CannedIds

\* body.question?.trim() || (canned questionId ? CANNED_LABELS[id] : "")
questionForConverse(body) ==
  IF "question" \in DOMAIN body THEN body.question
  ELSE IF hasCannedId(body) THEN CANNED_LABELS[body.questionId]
  ELSE ""

\* lines 96-112: the tool calls of the request and the question summarized
selectToolCalls(body) ==
  LET question0 == IF "question" \in DOMAIN body THEN body.question ELSE ""
      matchedId == IF "question" \in DOMAIN body
                     THEN matchFreeformToCannedQuestion(body.question)
                     ELSE Undefined
      first ==
        IF hasCannedId(body)
          THEN [ toolCalls |-> cannedQuestionToTools(body.questionId),
                 question |-> CANNED_LABELS[body.questionId] ]
        ELSE IF matchedId # Undefined
          THEN [ toolCalls |-> cannedQuestionToTools(matchedId),
                 question |-> CANNED_LABELS[matchedId] ]
        ELSE [ toolCalls |-> <<>>, question |-> question0 ]
  IN  IF first.toolCalls = <<>> /\ "toolCalls" \in DOMAIN body
        THEN [ toolCalls |-> body.toolCalls,
               question |-> IF question0 # "" THEN question0
                            ELSE "Custom tool invocation" ]
        ELSE first

\* invokeTools' test with the branches exchanged: if (!MCP_SERVER_URL)
useExternalInverted(url) == url = ""

\* if (MCP_SERVER_URL) return callExternalMCP(toolCalls)
useExternal(url) == url # ""

McpInit ==
  /\ env \in [ OPENAI_API_KEY : BOOLEAN, MCP_SERVER_URL : McpUrls ]
  /\ mcp = [pc |-> "idle"]
  /\ converseCall = [pc |-> "idle"]
  /\ GeneratorIdle /\ ClosureIdle /\ StepIdle /\ QueryIdle

\* POST is called: the handler runs up to await request.json()
Receive ==
  /\ mcp.pc = "idle"
  /\ \E body \in McpBodies : mcp' = [pc |-> "json", body |-> body]
  /\ UNCHANGED <<env, converseCall, generatorVars, closureVars, stepVars, queryVars>>

\* lines 66-122: the body is there; the handler chooses Converse or the
\* tool calls and runs up to its next await, or responds that no question
\* matched
Decide ==
  /\ mcp.pc = "json"
  /\ LET body == mcp.body
         useOpenAIElastic == env.OPENAI_API_KEY
         useConverse == /\ questionForConverse(body) # ""
                        /\ isElasticAgentBuilderMCP(env.MCP_SERVER_URL)
                        /\ ~useOpenAIElastic
         sel == selectToolCalls(body)
     IN  mcp' =
           IF useConverse
             THEN [ pc |-> "converse", input |-> questionForConverse(body),
                    converse |-> 0, toolCalls |-> <<>>, toolResults |-> <<>>,
                    log |-> <<>> ]
           ELSE IF sel.toolCalls = <<>>
             THEN [ pc |-> "done", converse |-> 0, toolCalls |-> <<>>,
                    toolResults |-> <<>>, log |-> <<>>,
                    response |-> [ ok |-> TRUE, summary |-> "No matching question",
                                   toolResults |-> <<>> ] ]
           ELSE [ pc |-> "tools", question |-> sel.question, converse |-> 0,
                  toolCalls |-> sel.toolCalls, toolResults |-> <<>>, log |-> <<>> ]
  /\ UNCHANGED <<env, converseCall, generatorVars, closureVars, stepVars, queryVars>>

\* lines 79-94: the open-cases context, if the question asks for one, has
\* been fetched and callElasticAgentConverse settles with a message or with
\* an error
Converse ==
  /\ mcp.pc = "converse"
  /\ \E failed \in BOOLEAN :
       mcp' = [ pc |-> "done", converse |-> mcp.converse + 1,
                toolCalls |-> <<>>, toolResults |-> <<>>, log |-> <<>>,
                response |->
                  IF failed THEN [ok |-> FALSE, status |-> 500]
                  ELSE [ok |-> TRUE, source |-> "elastic_agent_converse"] ]
  /\ UNCHANGED <<env, converseCall, generatorVars, closureVars, stepVars, queryVars>>

\* the request after one more tool call has pushed its result r through
\* the router via; invokeTools returns after the last one
pushed(r, via, outcome) ==
  [ mcp EXCEPT
      !.toolResults = Append(@, r),
      !.log = Append(@, [via |-> via, outcome |-> outcome]),
      !.pc = IF Len(mcp.toolResults) + 1 = Len(mcp.toolCalls)
               THEN "invoked" ELSE "tools" ]

\* text || JSON.stringify(data.result): the text of the result, or, for a
\* response body without a result, undefined (no content key)
externalContent(toolName, hasResult) ==
  IF hasResult THEN [tool |-> toolName, content |-> "text"]
  ELSE [tool |-> toolName]

\* callExternalMCP, one loop iteration: the server answers with an error,
\* or without one (with a result or without), or the fetch or its JSON
\* parsing throws
CallExternal ==
  /\ mcp.pc = "tools"
  /\ useExternal(env.MCP_SERVER_URL)
  /\ LET call == mcp.toolCalls[Len(mcp.toolResults) + 1]
     IN  \E outcome \in {"content", "error", "thrown"} : \E hasResult \in BOOLEAN :
           mcp' = IF outcome = "content"
                    THEN pushed(externalContent(call.name, hasResult),
                                "external", outcome)
                    ELSE pushed([tool |-> call.name, content |-> "", error |-> outcome],
                                "external", outcome)
  /\ UNCHANGED <<env, converseCall, generatorVars, closureVars, stepVars, queryVars>>

\* invokeTools' own loop, one iteration: executeInternalTool returns the
\* tool's data, or the error it caught, or "Unknown tool"
ExecuteInternal ==
  /\ mcp.pc = "tools"
  /\ ~useExternal(env.MCP_SERVER_URL)
  /\ LET call == mcp.toolCalls[Len(mcp.toolResults) + 1]
     IN  IF call.name \in INTERNAL_TOOLS
           THEN \E outcome \in {"content", "thrown"} :
                  mcp' = IF outcome = "content"
                           THEN pushed([tool |-> call.name, content |-> "data"],
                                       "internal", outcome)
                           ELSE pushed([tool |-> call.name, content |-> "",
                                        error |-> outcome],
                                       "internal", outcome)
           ELSE mcp' = pushed([tool |-> call.name, content |-> "",
                               error |-> "Unknown tool"],
                              "internal", "unknown")
  /\ UNCHANGED <<env, converseCall, generatorVars, closureVars, stepVars, queryVars>>

\* lines 125-143: for a failure question getEcolabCases settles, and the
\* open cases, if any, are pushed onto toolResults
InjectCases ==
  /\ mcp.pc = "invoked"
  /\ isFailureOrCaseQuestion(mcp.question)
  /\ \E open \in BOOLEAN :
       mcp' = [ mcp EXCEPT
                  !.pc = "summarize",
                  !.toolResults =
                    IF open THEN Append(@, [tool |-> "ecolab.open_cases",
                                            content |-> "cases"])
                    ELSE @ ]
  /\ UNCHANGED <<env, converseCall, generatorVars, closureVars, stepVars, queryVars>>

\* how the request to api.openai.com settles: a completion, a rejected
\* fetch, or a response that is not OK (summarizeWithOpenAI throws)
OpenAIOutcomes == {"ok", "network_error", "non_ok"}

\* summarizeRuleBased throws on a result without error whose content is
\* undefined: raw = JSON.stringify(undefined) is undefined and raw.slice
\* is called on it (directly, or in the catch of JSON.parse(raw))
ruleBasedThrows(toolResults) ==
  \E i \in 1 .. Len(toolResults) :
    "error" \notin DOMAIN toolResults[i] /\ "content" \notin DOMAIN toolResults[i]

\* summarizeToolResults(question, toolResults) with the key set or not and
\* the outcome of the OpenAI request, if one is made: the summary returned,
\* or the throw
summarizeToolResults(hasOpenAI, outcome, toolResults) ==
  IF hasOpenAI /\ outcome = "ok"
    THEN [returned |-> TRUE, summary |-> "openai", openai |-> 1]
  ELSE IF ruleBasedThrows(toolResults)
    THEN [returned |-> FALSE, openai |-> IF hasOpenAI THEN 1 ELSE 0]
  ELSE [returned |-> TRUE, summary |-> "rule_based",
        openai |-> IF hasOpenAI THEN 1 ELSE 0]

\* lines 145-161: summarizeToolResults settles (with OpenAI's summary, or
\* with the rule-based one when no key is set or OpenAI failed) and the
\* handler responds, or it throws and the catch responds 500
Summarize ==
  /\ \/ mcp.pc = "summarize"
     \/ mcp.pc = "invoked" /\ ~isFailureOrCaseQuestion(mcp.question)
  /\ \E outcome \in OpenAIOutcomes :
       LET settled == summarizeToolResults(env.OPENAI_API_KEY, outcome, mcp.toolResults)
       IN  mcp' = [ pc |-> "done", converse |-> mcp.converse,
                    toolCalls |-> mcp.toolCalls, toolResults |-> mcp.toolResults,
                    log |-> mcp.log,
                    summarized |-> [ outcome |-> outcome, openai |-> settled.openai ],
                    response |->
                      IF settled.returned
                        THEN [ ok |-> TRUE,
                               summary |-> settled.summary,
                               toolResults |-> mcp.toolResults ]
                        ELSE [ok |-> FALSE, status |-> 500] ]
  /\ UNCHANGED <<env, converseCall, generatorVars, closureVars, stepVars, queryVars>>

McpNext ==
  \/ Receive \/ Decide \/ Converse
  \/ CallExternal \/ ExecuteInternal
  \/ InjectCases \/ Summarize

McpSpec == McpInit /\ [][McpNext]_vars

----------------------------------------------------------------------------
(* Converse call: callElasticAgentConverse(question, options).  The Kibana  *)
(* server is the environment: it may answer the request or not, and having *)
(* sent the response headers it may finish the body or not.  The timer and  *)
(* the rejection of an aborted fetch belong to the runtime.                 *)

CONVERSE_TIMEOUT_MS == 12000

\* options: not given, or given with a timeoutMs
ConverseOptions == { EmptyOptions, [timeoutMs |-> 5000], [timeoutMs |-> 0] }

\* MCP_SERVER_URL without its /api/agent_builder/mcp suffix, on McpUrls
getKibanaBaseFromMCP(url) ==
  IF isElasticAgentBuilderMCP(url) THEN "https://kb.example.com" ELSE url

\* the JSON bodies of a Converse response: an agent message, no message,
\* an error message, an error field, neither, or a body that does not parse
ConverseBodies == { "message", "empty", "error_message", "error_field", "bare", "invalid" }

ConverseInit ==
  /\ env \in [ OPENAI_API_KEY : {FALSE}, MCP_SERVER_URL : McpUrls,
               ELASTIC_API_KEY : BOOLEAN ]
  /\ mcp = [pc |-> "idle"]
  /\ converseCall = [pc |-> "idle"]
  /\ GeneratorIdle /\ ClosureIdle /\ StepIdle /\ QueryIdle

\* the call has returned res; the timer is as the return path left it
converseReturn(call, timer, res) ==
  [ pc |-> "returned", question |-> call.question, timeoutMs |-> call.timeoutMs,
    timer |-> timer, aborted |-> call.aborted, result |-> res ]

\* lines 407-433: the early return, or the timer is set and the fetch
\* started
CallConverse ==
  /\ converseCall.pc = "idle"
  /\ \E question \in Questions : \E opts \in ConverseOptions :
       LET base == getKibanaBaseFromMCP(env.MCP_SERVER_URL)
           call == [ pc |-> "fetch", question |-> question,
                     timeoutMs |-> IF "timeoutMs" \in DOMAIN opts THEN opts.timeoutMs
                                   ELSE CONVERSE_TIMEOUT_MS,
                     timer |-> "armed", aborted |-> FALSE ]
       IN  converseCall' =
             IF base = "" \/ ~env.ELASTIC_API_KEY
               THEN converseReturn([call EXCEPT !.timeoutMs = 0], "unset",
                                   [message |-> "", error |-> "not configured"])
               ELSE call
  /\ UNCHANGED <<env, mcp, generatorVars, closureVars, stepVars, queryVars>>

\* setTimeout's callback: controller.abort()
TimerFires ==
  /\ converseCall.pc \in {"fetch", "body"}
  /\ converseCall.timer = "armed"
  /\ converseCall' = [ converseCall EXCEPT !.timer = "fired", !.aborted = TRUE ]
  /\ UNCHANGED <<env, mcp, generatorVars, closureVars, stepVars, queryVars>>

\* the aborted fetch rejects with an AbortError: the catch clears the
\* timer and returns the time-out error
AbortRejects ==
  /\ converseCall.pc \in {"fetch", "body"}
  /\ converseCall.aborted
  /\ converseCall' = converseReturn(converseCall, "cleared",
                                    [message |-> "", error |-> "Request timed out"])
  /\ UNCHANGED <<env, mcp, generatorVars, closureVars, stepVars, queryVars>>

\* the fetch rejects for another reason (the server cannot be reached):
\* the catch clears the timer and returns the error
FetchFails ==
  /\ converseCall.pc = "fetch"
  /\ ~converseCall.aborted
  /\ converseCall' = converseReturn(converseCall, "cleared",
                                    [message |-> "", error |-> "fetch failed"])
  /\ UNCHANGED <<env, mcp, generatorVars, closureVars, stepVars, queryVars>>

\* the response headers arrive: fetch resolves, line 434 clears the timer
\* and res.json() starts to read the body
HeadersArrive ==
  /\ converseCall.pc = "fetch"
  /\ ~converseCall.aborted
  /\ \E ok \in BOOLEAN :
       converseCall' = [ pc |-> "body", question |-> converseCall.question,
                         timeoutMs |-> converseCall.timeoutMs,
                         timer |-> "cleared", aborted |-> FALSE, ok |-> ok ]
  /\ UNCHANGED <<env, mcp, generatorVars, closureVars, stepVars, queryVars>>

\* lines 435-446 for a body that parsed, the catch for one that did not
converseResult(ok, body) ==
  IF body = "invalid" THEN [message |-> "", error |-> "Unexpected token"]
  ELSE IF ~ok
    THEN [ message |-> "",
           error |-> CASE body = "error_message" -> "data.message"
                       [] body = "error_field" -> "data.error"
                       [] OTHER -> "res.statusText" ]
  ELSE IF body = "message" THEN [message |-> "data.response.message"]
  ELSE [message |-> "No response from agent."]

\* the body is complete: res.json() settles and the call returns
BodyArrives ==
  /\ converseCall.pc = "body"
  /\ ~converseCall.aborted
  /\ \E body \in ConverseBodies :
       converseCall' = converseReturn(converseCall, "cleared",
                                      converseResult(converseCall.ok, body))
  /\ UNCHANGED <<env, mcp, generatorVars, closureVars, stepVars, queryVars>>

ConverseNext ==
  \/ CallConverse
  \/ TimerFires
  \/ AbortRejects
  \/ FetchFails
  \/ HeadersArrive
  \/ BodyArrives

\* the runtime runs a timer that is due and rejects an aborted fetch; the
\* server owes nothing
ConverseSpec ==
  /\ ConverseInit
  /\ [][ConverseNext]_vars
  /\ WF_vars(TimerFires)
  /\ WF_vars(AbortRejects)

----------------------------------------------------------------------------
(* Vocabulary of the properties *)

Returned(c) == c \in DOMAIN result

\* the arguments as generateMetricBatch resolves them
SeedOf(c) == IF "seed" \in DOMAIN options[c] THEN options[c].seed ELSE DEMO_SEED

StepIndexOf(c) ==
  IF "stepIndex" \in DOMAIN options[c] THEN options[c].stepIndex ELSE 0

SelectorOf(c) == Field(options[c], "injectAnomaly")

\* batch.anomaliesInjected ?? []
Injected(c) ==
  IF "anomaliesInjected" \in DOMAIN result[c] THEN result[c].anomaliesInjected
  ELSE <<>>

Positions(c) == 1 .. Len(result[c].metrics)

\* c's call has selector kind and d's call is the no-anomaly call with the
\* same seed and step index; both have returned
Against(c, kind, d) ==
  /\ Returned(c) /\ Returned(d)
  /\ SelectorOf(c) = kind /\ SelectorOf(d) = Undefined
  /\ SeedOf(c) = SeedOf(d) /\ StepIndexOf(c) = StepIndexOf(d)

\* the archetypes an anomaly kind is listed for (spec 4.2, effects table)
Affects(kind, deviceType) ==
  CASE kind = "underdosing" -> deviceType \in {"ChemicalDosingPump", "Dishwasher"}
    [] kind = "pump_failure" -> deviceType \in {"ChemicalDosingPump", "Dishwasher", "WaterSystem"}
    [] kind = "tank_leak" -> deviceType = "ChemicalDosingPump"
    [] kind = "thermal_high" -> deviceType = "Dishwasher"
    [] kind = "thermal_low" -> deviceType = "Dishwasher"
    [] OTHER -> FALSE

\* the positions of c's batch that carry the measurement called name
Named(c, name) == { i \in Positions(c) : result[c].metrics[i].name = name }

\* the positions of c's batch that belong to the device of a site and type
OfDevice(c, siteId, deviceType) ==
  { i \in Positions(c) :
      /\ result[c].metrics[i].attributes["site.id"] = siteId
      /\ result[c].metrics[i].attributes["device.type"] = deviceType }

RECURSIVE SumAt(_, _)
SumAt(c, I) ==
  IF I = {} THEN FromInt(0)
  ELSE LET i == CHOOSE j \in I : TRUE
       IN  VAdd(result[c].metrics[i].value, SumAt(c, I \ {i}))

\* mean of name in c's batch < mean of name in d's batch (both non-empty):
\* sum_c / n_c < sum_d / n_d  iff  sum_c * n_d < sum_d * n_c
MeanLess(c, d, name) ==
  /\ Named(c, name) # {} /\ Named(d, name) # {}
  /\ VLess(VMulSmall(SumAt(c, Named(c, name)), Cardinality(Named(d, name))),
           VMulSmall(SumAt(d, Named(d, name)), Cardinality(Named(c, name))))

----------------------------------------------------------------------------
(* C1 *)

\* C1: two calls with the same arguments return batches that agree at every
\* position on name, value and all five attributes, on stepIndex and on
\* anomaliesInjected; only the timestamps may differ.
C1_Determinism ==
  \A c, d \in Calls :
    (Returned(c) /\ Returned(d) /\ options[c] = options[d]) =>
      /\ Len(result[c].metrics) = Len(result[d].metrics)
      /\ \A i \in Positions(c) :
           /\ result[c].metrics[i].name = result[d].metrics[i].name
           /\ result[c].metrics[i].value = result[d].metrics[i].value
           /\ result[c].metrics[i].attributes = result[d].metrics[i].attributes
      /\ result[c].stepIndex = result[d].stepIndex
      /\ ("anomaliesInjected" \in DOMAIN result[c])
           = ("anomaliesInjected" \in DOMAIN result[d])
      /\ Injected(c) = Injected(d)

\* two calls with the same arguments (a thermal_high injection at step 1)
\* have returned, at different times
C1_Witness ==
  /\ Returned("a") /\ Returned("b")
  /\ options["a"] = options["b"]
  /\ SelectorOf("a") = "thermal_high" /\ StepIndexOf("a") = 1
  /\ result["a"].metrics[1].timestamp # result["b"].metrics[1].timestamp

----------------------------------------------------------------------------
(* C2 *)

\* C2: under an anomaly kind, every measurement of a device whose archetype
\* the kind is not listed for has exactly the value at the same position of
\* the no-anomaly batch for the same seed and step index.
C2_UnaffectedAtBaseline ==
  \A c, d \in Calls : \A kind \in AnomalyType :
    Against(c, kind, d) =>
      \A i \in Positions(c) :
        ~Affects(kind, result[c].metrics[i].attributes["device.type"]) =>
          result[c].metrics[i].value = result[d].metrics[i].value

----------------------------------------------------------------------------
(* C3 *)

\* C3: every batch has exactly 36 measurements, 4 for each of the 9
\* (site, archetype) combinations, exactly one of the 4 being device.status.
C3_CountInvariant ==
  \A c \in Calls :
    Returned(c) =>
      /\ Len(result[c].metrics) = 36
      /\ \A s \in 1 .. 3 : \A t \in 1 .. 3 :
           LET dev == OfDevice(c, SITES[s].id, DEVICE_TYPES[t])
           IN  /\ Cardinality(dev) = 4
               /\ Cardinality(dev \cap Named(c, "device.status")) = 1

\* batches have been returned for an unknown selector and for no selector
C3_Witness ==
  /\ Returned("a") /\ Returned("b")
  /\ SelectorOf("a") \in UnknownSelectors
  /\ options["b"] = EmptyOptions
  /\ Len(result["a"].metrics) = 36 /\ Len(result["b"].metrics) = 36

----------------------------------------------------------------------------
(* C4 *)

\* the (site, archetype) device instances an anomaly kind affects
AffectedDevices(kind) ==
  { <<s, t>> \in (1 .. 3) \X (1 .. 3) : Affects(kind, DEVICE_TYPES[t]) }

\* C4: under an anomaly kind, anomaliesInjected has one entry per affected
\* device instance (not deduplicated), every entry is the requested kind, and
\* the list is absent only when no device is affected.
C4_AnomalyListCardinality ==
  \A c \in Calls :
    (Returned(c) /\ SelectorOf(c) \in AnomalyType) =>
      /\ Len(Injected(c)) = Cardinality(AffectedDevices(SelectorOf(c)))
      /\ \A i \in 1 .. Len(Injected(c)) : Injected(c)[i] = SelectorOf(c)
      /\ ("anomaliesInjected" \in DOMAIN result[c])
           = (AffectedDevices(SelectorOf(c)) # {})

\* an underdosing batch carries the label six times and a tank_leak batch
\* three times
C4_Witness ==
  /\ Returned("a") /\ Returned("b")
  /\ SelectorOf("a") = "underdosing" /\ Len(Injected("a")) = 6
  /\ SelectorOf("b") = "tank_leak" /\ Len(Injected("b")) = 3

----------------------------------------------------------------------------
(* C5 *)

\* C5 as stated: a pump_failure batch has exactly 3 entries in
\* anomaliesInjected, one per site.
C5_PumpFailureThreeEntries ==
  \A c \in Calls :
    (Returned(c) /\ SelectorOf(c) = "pump_failure") => Len(Injected(c)) = 3

\* C5 amended: a pump_failure batch has exactly 9 entries in
\* anomaliesInjected, all "pump_failure": one per device, three per site.
C5_PumpFailureNineEntries ==
  \A c \in Calls :
    (Returned(c) /\ SelectorOf(c) = "pump_failure") =>
      /\ Len(Injected(c)) = 9
      /\ \A i \in 1 .. 9 : Injected(c)[i] = "pump_failure"
      /\ Len(Injected(c)) = Cardinality(Named(c, "device.status"))

\* a pump_failure batch has been returned
C5_Witness ==
  /\ Returned("a")
  /\ SelectorOf("a") = "pump_failure" /\ StepIndexOf("a") = 1
  /\ Injected("a") # <<>>

----------------------------------------------------------------------------
(* C6 *)

\* C6: a selector outside the five kinds gives the batch of the call without
\* selector (same seed and step index): same names, values, attributes and
\* order, and no anomaliesInjected.
C6_UnknownSelectorIgnored ==
  \A c, d \in Calls : \A sel \in UnknownSelectors :
    Against(c, sel, d) =>
      /\ Len(result[c].metrics) = Len(result[d].metrics)
      /\ \A i \in Positions(c) :
           /\ result[c].metrics[i].name = result[d].metrics[i].name
           /\ result[c].metrics[i].value = result[d].metrics[i].value
           /\ result[c].metrics[i].attributes = result[d].metrics[i].attributes
      /\ "anomaliesInjected" \notin DOMAIN result[c]

\* a call with an unknown selector and the matching call without selector
\* have both returned
C6_Witness ==
  /\ Against("a", "sensor_drift", "b")
  /\ "seed" \in DOMAIN options["b"]
  /\ Len(result["a"].metrics) > 0

----------------------------------------------------------------------------
(* C7 *)

\* the primary output measurement of each archetype
PrimaryOutput ==
  { "chemical.dosing_rate_lpm", "sanitation.sanitizer_ppm", "water.flow_rate_lpm" }

\* C7: in a pump_failure batch some device.status is 0, and the primary
\* output of every device whose device.status is 0 is 0 too.
C7_PumpFailureStatusZero ==
  \A c \in Calls :
    (Returned(c) /\ SelectorOf(c) = "pump_failure") =>
      /\ \E i \in Named(c, "device.status") :
           result[c].metrics[i].value = FromInt(0)
      /\ \A i \in Named(c, "device.status") :
           result[c].metrics[i].value = FromInt(0) =>
             \A j \in OfDevice(c, result[c].metrics[i].attributes["site.id"],
                               result[c].metrics[i].attributes["device.type"]) :
               result[c].metrics[j].name \in PrimaryOutput =>
                 result[c].metrics[j].value = FromInt(0)

\* a pump_failure batch has been returned in which a WaterSystem reports
\* status 0 and flow rate 0
C7_Witness ==
  /\ Returned("b") /\ SelectorOf("b") = "pump_failure"
  /\ \E i \in Named("b", "device.status") :
       /\ result["b"].metrics[i].value = FromInt(0)
       /\ result["b"].metrics[i].attributes["device.type"] = "WaterSystem"
       /\ result["b"].metrics[i - 1].name = "water.flow_rate_lpm"
       /\ result["b"].metrics[i - 1].value = FromInt(0)

----------------------------------------------------------------------------
(* C8 *)

\* C8: against the no-anomaly batch of the same seed and step index, the
\* underdosing batch has a strictly smaller mean chemical.dosing_rate_lpm and
\* a strictly smaller mean sanitation.sanitizer_ppm, and lists "underdosing".
C8_UnderdosingLowersMeans ==
  \A c, d \in Calls :
    Against(c, "underdosing", d) =>
      /\ MeanLess(c, d, "chemical.dosing_rate_lpm")
      /\ MeanLess(c, d, "sanitation.sanitizer_ppm")
      /\ \E i \in 1 .. Len(Injected(c)) : Injected(c)[i] = "underdosing"

\* an underdosing batch and its no-anomaly counterpart have both returned
C8_Witness ==
  /\ Against("a", "underdosing", "b")
  /\ Cardinality(Named("a", "chemical.dosing_rate_lpm")) = 3
  /\ Cardinality(Named("b", "sanitation.sanitizer_ppm")) = 3

----------------------------------------------------------------------------
(* C9 *)

\* C9: against the no-anomaly batch of the same seed and step index, the
\* tank_leak batch has a strictly smaller mean chemical.tank_level_pct, and
\* none of its chemical.tank_level_pct values is below 5.
C9_TankLeakReducesLevel ==
  \A c, d \in Calls :
    Against(c, "tank_leak", d) =>
      /\ MeanLess(c, d, "chemical.tank_level_pct")
      /\ \A i \in Named(c, "chemical.tank_level_pct") :
           VLeq(FromInt(5), result[c].metrics[i].value)

\* a tank_leak batch and its no-anomaly counterpart have both returned
C9_Witness ==
  /\ Against("b", "tank_leak", "a")
  /\ Cardinality(Named("b", "chemical.tank_level_pct")) = 3
  /\ \E i \in Named("b", "chemical.tank_level_pct") :
       VLess(result["b"].metrics[i].value, result["a"].metrics[i].value)

----------------------------------------------------------------------------
(* C10 *)

AttributeKeys == {"site.id", "site.name", "region", "device.type", "device.id"}

\* C10: every measurement of every batch carries exactly the five attribute
\* keys, each with a non-empty string value, and its site.id / site.name /
\* region are those of one of the three site records.
C10_AttributeCompleteness ==
  \A c \in Calls :
    Returned(c) =>
      \A i \in Positions(c) :
        LET a == result[c].metrics[i].attributes
        IN  /\ DOMAIN a = AttributeKeys
            /\ \A k \in AttributeKeys : a[k] \in STRING /\ a[k] # ""
            /\ \E s \in 1 .. Len(SITES) :
                 /\ a["site.id"] = SITES[s].id
                 /\ a["site.name"] = SITES[s].name
                 /\ a["region"] = SITES[s].region

\* a thermal_low batch has been returned whose last measurement is tagged
\* with the FoodPlant site and a WaterSystem device id
C10_Witness ==
  /\ Returned("a") /\ SelectorOf("a") = "thermal_low"
  /\ Len(result["a"].metrics) = 36
  /\ result["a"].metrics[36].attributes["site.name"] = "FoodPlant"
  /\ result["a"].metrics[36].attributes["device.id"]
       \in { "site-foodplant-01-WaterSystem-" \o ToString(n) : n \in 1 .. 3 }

----------------------------------------------------------------------------
(* C11 *)

\* the names a batch carries
NamesOf(c) == { result[c].metrics[i].name : i \in Positions(c) }

\* C11: the set of distinct measurement names of every batch is exactly the
\* set of the 10 names of METRIC_NAMES: none is missing, no other is emitted.
C11_MetricNameCoverage ==
  \A c \in Calls :
    Returned(c) =>
      /\ NamesOf(c) = { METRIC_NAMES[k] : k \in 1 .. Len(METRIC_NAMES) }
      /\ Cardinality(NamesOf(c)) = 10

\* a pump_failure batch and an unknown-selector batch have been returned,
\* each carrying the first and the last name of the list
C11_Witness ==
  /\ Returned("a") /\ Returned("b")
  /\ SelectorOf("a") = "pump_failure" /\ SelectorOf("b") \in UnknownSelectors
  /\ StepIndexOf("a") = 1
  /\ METRIC_NAMES[1] \in NamesOf("a") /\ METRIC_NAMES[10] \in NamesOf("b")

----------------------------------------------------------------------------
(* C12 *)

\* the baseline range of each measurement, <<low, high>> (simulator.ts
\* 102-104, 129-130, 158-160); cycle_count has none
BaselineRange(name) ==
  CASE name = "chemical.dosing_rate_lpm" -> <<FromHundredths(80), FromHundredths(120)>>
    [] name = "chemical.tank_level_pct" -> <<FromInt(70), FromInt(95)>>
    [] name = "chemical.conductivity_uS" -> <<FromInt(1200), FromInt(1600)>>
    [] name = "sanitation.water_temp_c" -> <<FromInt(55), FromInt(70)>>
    [] name = "sanitation.sanitizer_ppm" -> <<FromInt(45), FromInt(70)>>
    [] name = "water.ph" -> <<FromHundredths(660), FromHundredths(740)>>
    [] name = "water.conductivity_uS" -> <<FromInt(800), FromInt(1100)>>
    [] name = "water.flow_rate_lpm" -> <<FromInt(12), FromInt(20)>>
    [] name = "device.status" -> <<FromInt(1), FromInt(1)>>

Within(v, range) == VLeq(range[1], v) /\ VLeq(v, range[2])

\* C12: in every batch generated with no anomaly, every value other than
\* cycle_count lies in the baseline range of its name, and device.status is 1.
C12_BaselineRanges ==
  \A c \in Calls :
    (Returned(c) /\ SelectorOf(c) = Undefined) =>
      \A i \in Positions(c) :
        result[c].metrics[i].name # "sanitation.cycle_count" =>
          Within(result[c].metrics[i].value,
                 BaselineRange(result[c].metrics[i].name))

\* two no-anomaly batches have been returned, for different seeds, with a pH
\* below 7 in one and above 7 in the other
C12_Witness ==
  /\ Returned("a") /\ Returned("b")
  /\ SelectorOf("a") = Undefined /\ SelectorOf("b") = Undefined
  /\ SeedOf("a") # SeedOf("b")
  /\ \E i \in Named("a", "water.ph") : \E j \in Named("b", "water.ph") :
       /\ VLess(result["a"].metrics[i].value, FromInt(7))
       /\ VLess(FromInt(7), result["b"].metrics[j].value)

----------------------------------------------------------------------------
(* C13 *)

\* C13: every water_temp_c of a thermal_high batch lies in [85, 95] and of a
\* thermal_low batch in [35, 40]; in both, the Dishwashers' sanitizer_ppm
\* stays in [45, 70] and their device.status is 1.
C13_ThermalOverrides ==
  \A c \in Calls :
    (Returned(c) /\ SelectorOf(c) \in {"thermal_high", "thermal_low"}) =>
      \A i \in Positions(c) :
        LET m == result[c].metrics[i]
        IN  /\ m.name = "sanitation.water_temp_c" =>
                 IF SelectorOf(c) = "thermal_high"
                   THEN Within(m.value, <<FromInt(85), FromInt(95)>>)
                   ELSE Within(m.value, <<FromInt(35), FromInt(40)>>)
            /\ ( /\ m.attributes["device.type"] = "Dishwasher"
                 /\ m.name \in {"sanitation.sanitizer_ppm", "device.status"} ) =>
                 Within(m.value, BaselineRange(m.name))

\* a thermal_high and a thermal_low batch have been returned, each with its
\* three overridden temperatures
C13_Witness ==
  /\ Returned("a") /\ Returned("b")
  /\ SelectorOf("a") = "thermal_high" /\ SelectorOf("b") = "thermal_low"
  /\ Cardinality(Named("a", "sanitation.water_temp_c")) = 3
  /\ Cardinality(Named("b", "sanitation.water_temp_c")) = 3
  /\ \E i \in Named("a", "sanitation.water_temp_c") :
       VLess(FromInt(85), result["a"].metrics[i].value)
  /\ \E i \in Named("b", "sanitation.water_temp_c") :
       VLess(result["b"].metrics[i].value, FromInt(40))

----------------------------------------------------------------------------
(* C14 *)

\* C14: all measurements of a batch carry one and the same timestamp, a
\* value the clock had during the call.
C14_SingleTimestamp ==
  \A c \in Calls :
    Returned(c) =>
      /\ \A i, j \in Positions(c) :
           result[c].metrics[i].timestamp = result[c].metrics[j].timestamp
      /\ \A i \in Positions(c) : result[c].metrics[i].timestamp \in Nows

\* two batches have been returned at different times: each is stamped
\* uniformly, with its own time
C14_Witness ==
  /\ Returned("a") /\ Returned("b")
  /\ result["a"].metrics[1].timestamp = 1
  /\ result["b"].metrics[1].timestamp = MaxNow
  /\ result["a"].metrics[36].timestamp # result["b"].metrics[36].timestamp

----------------------------------------------------------------------------
(* C15 *)

\* the cycle_count of the Dishwasher of site s in c's batch
CycleCountOf(c, s) ==
  LET i == CHOOSE j \in OfDevice(c, SITES[s].id, "Dishwasher") :
             result[c].metrics[j].name = "sanitation.cycle_count"
  IN  result[c].metrics[i].value

\* C15: the cycle_count of every Dishwasher at step index i is 2i, 2i + 1 or
\* 2i + 2, and of two batches the one with the larger step index has, site
\* by site, a cycle_count that is not smaller (whatever the seeds and
\* selectors of the two calls).
C15_CycleCountMonotone ==
  /\ \A c \in Calls :
       Returned(c) =>
         \A s \in 1 .. Len(SITES) :
           CycleCountOf(c, s) \in
             { FromInt(2 * StepIndexOf(c) + k) : k \in 0 .. 2 }
  /\ \A c, d \in Calls :
       (Returned(c) /\ Returned(d) /\ StepIndexOf(c) < StepIndexOf(d)) =>
         \A s \in 1 .. Len(SITES) :
           VLeq(CycleCountOf(c, s), CycleCountOf(d, s))

\* the batches of steps 0 and 1 of one seed have been returned; the first
\* site's cycle_count is at the top of its range at step 0 and at the bottom
\* of its range at step 1, and the second site's has grown
C15_Witness ==
  /\ Returned("a") /\ Returned("b")
  /\ SeedOf("a") = SeedOf("b")
  /\ StepIndexOf("a") = 0 /\ StepIndexOf("b") = 1
  /\ CycleCountOf("a", 1) = FromInt(2) /\ CycleCountOf("b", 1) = FromInt(2)
  /\ VLess(CycleCountOf("a", 2), CycleCountOf("b", 2))

----------------------------------------------------------------------------
(* C17 *)

\* C17: of two closures created from the same seed, those created for
\* different step indices start from different 32-bit states and have
\* returned different sequences once they have been called equally often;
\* those created for the same step index start from the same state and
\* return the same values call by call.  The state a closure starts from is
\* the one generateMetricBatch seeds with, and its k-th value is rng(_, k).
C17_PerCallSeeding ==
  \A c, d \in DOMAIN closure :
    LET x == closure[c]
        y == closure[d]
    IN  /\ (x.seedOption = y.seedOption /\ x.stepIndex # y.stepIndex) =>
             /\ x.seed0 # y.seed0
             /\ (Len(x.drawn) = Len(y.drawn) /\ Len(x.drawn) > 0) =>
                  x.drawn # y.drawn
        /\ (x.seedOption = y.seedOption /\ x.stepIndex = y.stepIndex) =>
             /\ x.seed0 = y.seed0
             /\ \A k \in 1 .. Len(x.drawn) :
                  k <= Len(y.drawn) => x.drawn[k] = y.drawn[k]
        /\ x.stepIndex[1] = 0 =>
             x.seed0 = createSeededRandom(x.seedOption
                                          + x.stepIndex[2] * StepSeedFactor)
        /\ \A k \in 1 .. Len(x.drawn) : x.drawn[k] = rng(x.seed0, k)

\* two closures of seed 42, for step indices 0 and 2^28, have both been
\* called MaxDraws times
C17_Witness ==
  /\ DOMAIN closure = Calls
  /\ closure["a"].seedOption = DEMO_SEED /\ closure["b"].seedOption = DEMO_SEED
  /\ closure["a"].stepIndex = <<0, 0>> /\ closure["b"].stepIndex = <<4096, 0>>
  /\ Len(closure["a"].drawn) = MaxDraws /\ Len(closure["b"].drawn) = MaxDraws

----------------------------------------------------------------------------
(* C16 *)

\* the requests for which a batch has been generated and not lost to a
\* thrown export
Stepped(r) ==
  \/ request[r].pc = "export"
  \/ request[r].pc = "done" /\ request[r].response.status = 200

\* the step index a request's batch was generated with
BatchIndexOf(r) ==
  IF request[r].pc = "export" THEN request[r].batch.stepIndex
  ELSE request[r].response.stepIndex

\* C16: the counter starts at 0; at all times it equals the number of
\* batches generated so far and the n-th generated batch (from 0) carries
\* step index n, so that no two requests share an index, whatever the
\* outcome of their exports; every step that generates a batch adds exactly
\* one to the counter and no other step changes it.
C16_StepCounterDiscipline ==
  /\ stepIndex = 0
  /\ [](/\ stepIndex = Len(generated)
        /\ \A n \in 1 .. Len(generated) : generated[n] = n - 1
        /\ \A r, q \in Requests :
             (Stepped(r) /\ Stepped(q) /\ r # q) => BatchIndexOf(r) # BatchIndexOf(q))
  /\ [][/\ stepIndex' >= stepIndex
        /\ generated' # generated =>
             /\ Len(generated') = Len(generated) + 1
             /\ stepIndex' = stepIndex + 1
        /\ generated' = generated => stepIndex' = stepIndex]_vars

\* two requests have been served, the first one's export threw (its batch
\* had been generated: the counter stands at 2) and the second one's export
\* returned a failure
C16_Witness ==
  /\ request[1].pc = "done" /\ request[2].pc = "done"
  /\ request[1].response.status = 500
  /\ request[2].response.status = 200
  /\ ~request[2].response.export.ok
  /\ stepIndex = 2 /\ generated = <<0, 1>>

----------------------------------------------------------------------------
(* C18 *)

\* the searches getMetricsSummary has made so far, in order
Searched == IF metricsSummary.pc = "idle" THEN <<>> ELSE metricsSummary.searched

IsClientError(res) == ~res.ok /\ res.status \in 400 .. 499

IsBadRequestOrNotFound(res) == ~res.ok /\ res.status \in {400, 404}

IsEmptyResult(res) == res.ok /\ bucketsOf(res.data) = <<>>

IsHit(res) == res.ok /\ bucketsOf(res.data) # <<>>

\* the fallback discipline, for a given notion of the failures that fall
\* back: candidates are searched in the order of SiteFields; a search that
\* ends empty or with such a failure is not followed by a throw but by the
\* next candidate; the first non-empty result is returned and ends the
\* searches; when all candidates ended empty or with such a failure the
\* empty summary is returned
FallbackDiscipline(FallsBack(_)) ==
  LET n == Len(Searched)
  IN  /\ \A k \in 1 .. n : Searched[k].siteField = SiteFields[k]
      /\ \A k \in 1 .. n :
           (FallsBack(Searched[k].result) \/ IsEmptyResult(Searched[k].result)) =>
             /\ ~(k = n /\ metricsSummary.pc = "thrown")
             /\ k < Len(SiteFields) => (n > k \/ metricsSummary.pc = "search")
      /\ \A k \in 1 .. n :
           IsHit(Searched[k].result) =>
             /\ k = n
             /\ metricsSummary.pc = "returned"
             /\ metricsSummary.value = summaryOf(Searched[k].result.data.buckets)
      /\ ( /\ n = Len(SiteFields)
           /\ \A k \in 1 .. n :
                FallsBack(Searched[k].result) \/ IsEmptyResult(Searched[k].result) ) =>
           /\ metricsSummary.pc = "returned"
           /\ metricsSummary.value = emptySummary

----------------------------------------------------------------------------
(* C19 *)

\* the tool calls carried out so far for the request, each with the router
\* that carried it out
McpLog == IF mcp.pc \in {"idle", "json"} THEN <<>> ELSE mcp.log

ConverseCalls == IF mcp.pc \in {"idle", "json"} THEN 0 ELSE mcp.converse

\* C19: when OPENAI_API_KEY is set, the request never calls the Converse
\* API and every tool call it carries out goes through executeInternalTool,
\* whatever MCP_SERVER_URL is.
C19_OpenAIUsesInternalTools ==
  env.OPENAI_API_KEY =>
    /\ ConverseCalls = 0
    /\ \A i \in 1 .. Len(McpLog) : McpLog[i].via = "internal"

----------------------------------------------------------------------------
(* C20 *)

----------------------------------------------------------------------------
(* C23 *)

\* C23: the measurement at position k (0 .. 35) of every batch belongs to
\* site number k div 12 and to archetype number (k mod 12) div 4, in the
\* declaration order of SITES and DEVICE_TYPES, the fourth measurement of
\* each device is device.status, and any two batches list the same names in
\* the same order.
C23_FixedIterationOrder ==
  /\ \A c \in Calls :
       Returned(c) =>
         \A i \in Positions(c) :
           LET k == i - 1
               m == result[c].metrics[i]
           IN  /\ m.attributes["site.id"] = SITES[(k \div 12) + 1].id
               /\ m.attributes["site.name"] = SITES[(k \div 12) + 1].name
               /\ m.attributes["device.type"] = DEVICE_TYPES[((k % 12) \div 4) + 1]
               /\ (k % 4 = 3) => m.name = "device.status"
               /\ (k % 4 # 3) => m.name # "device.status"
  /\ \A c, d \in Calls :
       (Returned(c) /\ Returned(d)) =>
         /\ Len(result[c].metrics) = Len(result[d].metrics)
         /\ \A i \in Positions(c) :
              result[c].metrics[i].name = result[d].metrics[i].name

\* two batches of different seeds, step indices and selectors have been
\* returned; position 17 (k = 16) of both is the Restaurant Dishwasher's
\* cycle_count and position 36 the FoodPlant WaterSystem's status
C23_Witness ==
  /\ Returned("a") /\ Returned("b")
  /\ SeedOf("a") # SeedOf("b") /\ StepIndexOf("a") # StepIndexOf("b")
  /\ SelectorOf("a") = "tank_leak" /\ SelectorOf("b") = "pump_failure"
  /\ result["a"].metrics[17].name = "sanitation.cycle_count"
  /\ result["b"].metrics[17].attributes["site.name"] = "Restaurant"
  /\ result["b"].metrics[36].name = "device.status"
  /\ result["a"].metrics[36].attributes["device.type"] = "WaterSystem"

----------------------------------------------------------------------------
(* C24 *)

\* C24: every device.status is 0 or 1; a pump_failure batch has 9 of them,
\* all 0, and a batch of any other selector (none, another kind, an unknown
\* value) has 9 of them, all 1.
C24_StatusIffPumpFailure ==
  \A c \in Calls :
    Returned(c) =>
      /\ Cardinality(Named(c, "device.status")) = 9
      /\ \A i \in Named(c, "device.status") :
           /\ result[c].metrics[i].value \in {FromInt(0), FromInt(1)}
           /\ (result[c].metrics[i].value = FromInt(0))
                = (SelectorOf(c) = "pump_failure")

\* a pump_failure batch with a status 0 and an unknown-selector batch with
\* a status 1 have been returned
C24_Witness ==
  /\ Returned("a") /\ Returned("b")
  /\ SelectorOf("a") = "pump_failure" /\ SelectorOf("b") \in UnknownSelectors
  /\ result["a"].metrics[4].value = FromInt(0)
  /\ result["b"].metrics[4].value = FromInt(1)
  /\ result["a"].metrics[24].value = FromInt(0)

----------------------------------------------------------------------------
(* C29 *)

\* the measurement names whose value an anomaly kind that draws no random
\* number overrides (simulator.ts 107-116, 141-149, 163-167)
Overridden(kind) ==
  CASE kind = "underdosing" ->
         { "chemical.dosing_rate_lpm", "chemical.conductivity_uS",
           "sanitation.sanitizer_ppm" }
    [] kind = "pump_failure" ->
         { "device.status", "chemical.dosing_rate_lpm",
           "sanitation.sanitizer_ppm", "water.flow_rate_lpm" }

\* C29: against the no-anomaly batch of the same seed and step index, the
\* underdosing batch and the pump_failure batch carry the same attributes
\* (device.id included) at every position and the same value at every
\* position whose name the kind does not override.
C29_NoDrawAnomaliesFrame ==
  \A c, d \in Calls : \A kind \in {"underdosing", "pump_failure"} :
    Against(c, kind, d) =>
      /\ Len(result[c].metrics) = Len(result[d].metrics)
      /\ \A i \in Positions(c) :
           /\ result[c].metrics[i].attributes = result[d].metrics[i].attributes
           /\ result[c].metrics[i].name = result[d].metrics[i].name
           /\ result[c].metrics[i].name \notin Overridden(kind) =>
                result[c].metrics[i].value = result[d].metrics[i].value

\* an underdosing batch and its no-anomaly counterpart have been returned:
\* the first dosing rate differs, the tank level next to it and the last
\* WaterSystem's flow rate do not
C29_Witness ==
  /\ Against("a", "underdosing", "b")
  /\ result["a"].metrics[1].value # result["b"].metrics[1].value
  /\ result["a"].metrics[2].name = "chemical.tank_level_pct"
  /\ result["a"].metrics[2].value = result["b"].metrics[2].value
  /\ result["a"].metrics[35].value = result["b"].metrics[35].value

----------------------------------------------------------------------------
(* C30 *)

\* C30: two calls with the same selector whose seeds and step indices give
\* the same sum seed + 7919 * stepIndex return batches with the same
\* attributes (device.id included) and the same values at every position,
\* except that each cycle_count of the first exceeds that of the second by
\* twice the difference of the step indices.
C30_SeedStepAliasing ==
  \A c, d \in Calls :
    ( /\ Returned(c) /\ Returned(d)
      /\ SelectorOf(c) = SelectorOf(d)
      /\ SeedOf(c) + 7919 * StepIndexOf(c) = SeedOf(d) + 7919 * StepIndexOf(d) ) =>
      /\ Len(result[c].metrics) = Len(result[d].metrics)
      /\ \A i \in Positions(c) :
           LET m == result[c].metrics[i]
               o == result[d].metrics[i]
           IN  /\ m.name = o.name
               /\ m.attributes = o.attributes
               /\ IF m.name = "sanitation.cycle_count"
                    THEN VToInt(m.value) - VToInt(o.value)
                           = 2 * (StepIndexOf(c) - StepIndexOf(d))
                    ELSE m.value = o.value

\* the thermal_low batches of (seed 42, step 1) and of (seed 42 + 7919,
\* step 0) have been returned; their cycle counts differ by 2
C30_Witness ==
  /\ Returned("a") /\ Returned("b")
  /\ SelectorOf("a") = "thermal_low" /\ SelectorOf("b") = "thermal_low"
  /\ SeedOf("a") = DEMO_SEED /\ StepIndexOf("a") = 1
  /\ SeedOf("b") = DEMO_SEED + StepSeedFactor /\ StepIndexOf("b") = 0
  /\ VToInt(result["a"].metrics[5].value) = VToInt(result["b"].metrics[5].value) + 2
  /\ result["a"].metrics[6].value = result["b"].metrics[6].value

----------------------------------------------------------------------------
(* C25 *)

\* C25: whenever a request resumes from awaiting its body and generates its
\* batch, the batch's step index is the counter's value at that moment and
\* differs from the index of every other request that has generated a
\* batch, whatever those requests are doing (awaiting their export or
\* answered); and whenever a request answers 200, the stepIndex of its
\* response is the one its own batch was generated with.
C25_NoSharedStepIndex ==
  [][\A r \in Requests :
       /\ (request[r].pc = "json" /\ request'[r].pc = "export") =>
            /\ request'[r].batch.stepIndex = stepIndex
            /\ \A q \in Requests \ {r} :
                 Stepped(q) => BatchIndexOf(q) # request'[r].batch.stepIndex
       /\ ( /\ request[r].pc = "export" /\ request'[r].pc = "done"
            /\ request'[r].response.status = 200 ) =>
            request'[r].response.stepIndex = request[r].batch.stepIndex]_vars

\* request 1 generated its batch (index 0) and still awaits its export
\* while request 2 has arrived, generated its batch and answered with
\* index 1
C25_Witness ==
  /\ request[1].pc = "export" /\ request[1].batch.stepIndex = 0
  /\ request[2].pc = "done" /\ request[2].response.status = 200
  /\ request[2].response.stepIndex = 1
  /\ stepIndex = 2

----------------------------------------------------------------------------
(* C26 *)

\* C26: a step of the start, stop or debug route leaves the counter and the
\* list of generated batches unchanged; the counter changes only in a step
\* in which a step request generates its batch; the debug route's batch has
\* step index 0 whatever the counter; and the first batch generated after a
\* stop was served carries the index the counter had reached at the stop.
C26_OnlyStepRouteChangesCounter ==
  /\ [](/\ control.otlpTest.pc = "export" => control.otlpTest.batch.stepIndex = 0
        /\ (control.served.route = "stop" /\ Len(generated) > control.served.at) =>
             generated[control.served.at + 1] = control.served.at)
  /\ [][/\ control' # control => (stepIndex' = stepIndex /\ generated' = generated)
        /\ stepIndex' # stepIndex =>
             \E r \in Requests : request[r].pc = "json" /\ request'[r].pc = "export"]_vars

\* a step generated batch 0, then a stop was served (counter at 1), then
\* another step generated batch 1
C26_Witness ==
  /\ control.served.route = "stop" /\ control.served.at = 1
  /\ generated = <<0, 1>>
  /\ stepIndex = 2

----------------------------------------------------------------------------
(* C27 *)

\* the searches getTimeseries has made so far, in order
Queried == IF timeseries.pc = "idle" THEN <<>> ELSE timeseries.searched

\* getTimeseries has returned or thrown
Ended == timeseries.pc \in {"returned", "thrown"}

\* the fetch of the search was rejected: search() returned nothing
IsRejected(res) == ~res.ok /\ res.status = 0

\* search() returned { ok: false, status, body }
IsFailure(res) == ~res.ok /\ res.status # 0

\* the order of the two queries, and the return of the first one's buckets
TsdsFirst ==
  LET n == Len(Queried)
  IN  /\ n <= 2
      /\ n >= 1 => Queried[1].field = metricToField(timeseries.metric)
      /\ n = 2 => Queried[2].field = LEGACY_VALUE_FIELD
      /\ (n >= 1 /\ IsHit(Queried[1].result)) =>
           /\ n = 1
           /\ timeseries.pc = "returned"
           /\ timeseries.value = chartOf(bucketsOf(Queried[1].result.data))

----------------------------------------------------------------------------
(* C28 *)

\* getMetricsSummary throws on a failure of its first candidate with any
\* status other than 400 and 404
SummaryThrowsOnFirstFailure ==
  \A st \in FailureStatuses \ {400, 404} :
    LET res == [ok |-> FALSE, status |-> st]
        call == [ pc |-> "search", index |-> "metrics-*",
                  searched |-> << [siteField |-> SITE_FIELD, result |-> res] >> ]
    IN  afterSearch(call, res).pc = "thrown"

\* what holds of the failures search() returns: a failure of the TSDS search
\* is followed by the legacy query, whatever its status; a 400 or 404 of
\* the legacy search gives the empty list
ReturnedFailures ==
  LET n == Len(Queried)
  IN  /\ (n >= 1 /\ IsFailure(Queried[1].result)) =>
           (n = 2 \/ timeseries.pc = "legacy")
      /\ (n = 2 /\ IsBadRequestOrNotFound(Queried[2].result)) =>
           (timeseries.pc = "returned" /\ timeseries.value = <<>>)

----------------------------------------------------------------------------
(* C21 *)

\* the request was answered after summarizeToolResults settled
Summarized == mcp.pc = "done" /\ "summarized" \in DOMAIN mcp

\* C21: summarizeToolResults always returns a summary: without
\* OPENAI_API_KEY the rule-based one, with no request to OpenAI; with the
\* key, OpenAI's when the request succeeds and the rule-based one when it
\* fails (rejected fetch or non-OK response); it never throws.
C21_SummaryAlwaysReturned ==
  Summarized =>
    /\ mcp.response.ok
    /\ mcp.response.summary \in {"openai", "rule_based"}
    /\ ~env.OPENAI_API_KEY =>
         (mcp.summarized.openai = 0 /\ mcp.response.summary = "rule_based")
    /\ (env.OPENAI_API_KEY /\ mcp.summarized.outcome # "ok") =>
         mcp.response.summary = "rule_based"

----------------------------------------------------------------------------
(* C22 *)

\* C22: a call that has started its fetch eventually returns, whatever the
\* server does, and its result is a message or an error; whenever the call
\* has returned the timer is not pending.
C22_ConverseNeverHangs ==
  /\ [](converseCall.pc = "returned" =>
          /\ converseCall.timer # "armed"
          /\ "message" \in DOMAIN converseCall.result)
  /\ (converseCall.pc = "fetch") ~> (converseCall.pc = "returned")

\* the response headers have arrived, the timer has been cleared, and the
\* call awaits the rest of the body: reached with the timer cleared, left
\* only if the server finishes the body
C22_AwaitingBodyWithoutTimer ==
  /\ converseCall.pc = "body"
  /\ converseCall.timer = "cleared"
  /\ ~converseCall.aborted

====
